---- MODULE Spec2Model ----
(***************************************************************************)
(* The full-control fleet adapter: the per-robot command handle            *)
(* (FleetDriverRobotCommandHandle) and the fleet coordinator (Connections, *)
(* make_fleet).                                                            *)
(*                                                                         *)
(* Time is the steady clock in units of 100 ms.  An optional value is a    *)
(* sequence: <<>> is nullopt, <<v>> holds v.  A callback is the number of  *)
(* the command that installed it; 0 is nullptr.                            *)
(***************************************************************************)
EXTENDS Integers, Sequences, FiniteSets, TLC

\* ------------------------------------------------------------------ bounds

\* The largest task-id the model lets a handle issue.
MaxTaskId == 2
\* The clock's last instant in the command specification (units of 100 ms).
MaxTime == 4
\* The clock's last instant in the resend specification (units of 100 ms).
MaxResendTime == 9
\* The clock's last instant in the docking specification (units of 100 ms).
MaxDockTime == 22
\* invocations of one callback are counted up to this number
MaxCalls == 2
\* The node clock's last instant in the watchdog specification (units of
\* 5 s).
MaxRosTime == 10

\* The longest plan given to execute_plan.
MaxPlanLen == 3

\* ------------------------------------------------------- program constants

\* std::chrono::milliseconds(200), in units of 100 ms
ResendInterval == 2
\* std::chrono::seconds(1), in units of 100 ms
DockScheduleInterval == 10
\* the divisor of battery_percent / 100.0
BatteryScale == 100
\* _update_timeout = std::chrono::seconds(10), in units of 5 s
UpdateTimeout == 2

\* ---------------------------------------------------------------- optional

nullopt == <<>>
has_value(o) == o # <<>>
value(o) == o[1]
Some(v) == <<v>>

\* ------------------------------------------------------------------- graph
\* The navigation graph, built once from configuration.  Waypoints and lanes
\* are numbered from 0 as in rmf_traffic::agv::Graph.

MapName == "L1"
OtherMap == "L2"

\* get_waypoint(i).get_location()
WaypointLocation == <<  <<0, 0>>, <<4, 0>>, <<4, 4>>  >>

num_waypoints == Len(WaypointLocation)
WaypointIndices == 0..(num_waypoints - 1)
get_location(w) == WaypointLocation[w + 1]

\* get_lane(i): entry and exit waypoint, and the name of the dock of its
\* entry event ("" when the entry event is no Dock event).
Lanes == <<
    [entry |-> 0, exit |-> 1, dock |-> ""],
    [entry |-> 1, exit |-> 0, dock |-> ""],
    [entry |-> 1, exit |-> 2, dock |-> "dockA"]  >>

num_lanes == Len(Lanes)
LaneIndices == 0..(num_lanes - 1)
get_lane(l) == Lanes[l + 1]

\* Graph::lane_from(from, to): the lane from one waypoint to another, if any.
lane_from(from, to) ==
    LET found == {l \in LaneIndices :
                     get_lane(l).entry = from /\ get_lane(l).exit = to}
    IN  IF found = {} THEN nullopt
        ELSE Some(CHOOSE l \in found : \A k \in found : l <= k)

Dot(a, b) == a[1] * b[1] + a[2] * b[2]
Minus(a, b) == <<a[1] - b[1], a[2] - b[2]>>

\* ------------------------------------------------------------------ inputs

\* std::to_string of a task-id counter
DigitChar == <<"0", "1", "2", "3", "4", "5", "6", "7", "8", "9">>

RECURSIVE to_string(_)
to_string(n) ==
    IF n < 10 THEN DigitChar[n + 1]
    ELSE to_string(n \div 10) \o DigitChar[(n % 10) + 1]

\* The plans the planner may hand to follow_new_path: Plan::Waypoint with
\* position(), graph_index() and approach_lanes().
PlanStraight == <<
    [position |-> <<0, 0>>, graph_index |-> Some(0), approach_lanes |-> <<>>],
    [position |-> <<4, 0>>, graph_index |-> Some(1), approach_lanes |-> <<0>>],
    [position |-> <<4, 4>>, graph_index |-> Some(2), approach_lanes |-> <<2>>]  >>

PlanMerged == <<
    [position |-> <<0, 0>>, graph_index |-> Some(0), approach_lanes |-> <<>>],
    [position |-> <<4, 4>>, graph_index |-> Some(2), approach_lanes |-> <<0, 2>>]  >>

Plans == {PlanStraight, PlanMerged}

\* Positions a driver reports: the lane entry, mid-lane, the lane exit, and
\* a point off the lanes near the corner.
Positions == {<<0, 0>>, <<2, 0>>, <<4, 0>>, <<3, 1>>}

Modes == {"MODE_IDLE", "MODE_MOVING", "MODE_DOCKING", "MODE_ADAPTER_ERROR"}

DockNames == {"dockA", "dockZ"}

\* The robots of the fleet.  The handle variables are those of RobotName's
\* handle; the calls made on another robot's handle are only recorded.
RobotName == "r1"
RobotNames == {"r1", "r2"}

Location(p, level) == [x |-> p[1], y |-> p[2], level_name |-> level]

\* rmf_fleet_msgs::msg::RobotState
RobotState(name, task_id, mode, battery, loc, path) ==
    [name |-> name, task_id |-> task_id, mode |-> mode,
     battery_percent |-> battery, location |-> loc, path |-> path]

\* ------------------------------------------------------------------- state

VARIABLES
    \* FleetDriverRobotCommandHandle
    current_task_id,          \* uint32_t _current_task_id
    current_path_request,     \* PathRequest: task_id and path
    path_requested_time,      \* steady_clock::time_point
    travel_info,              \* TravelInfo: waypoints, target_plan_index,
                              \* next_arrival_estimator,
                              \* path_finished_callback, last_known_wp
    last_known_state,         \* optional RobotState (its location is all
                              \* that is ever read back)
    interrupted,              \* bool _interrupted
    current_dock_request,     \* ModeRequest: task_id and the docking parameter
    dock_target_wp,           \* optional waypoint index
    dock_requested_time,
    dock_schedule_time,
    dock_finished_callback,
    interruptions,            \* the ids of _interruptions
    action_execution,         \* optional ActionExecution
    pc,                       \* "idle", inside a completion callback, or
                              \* "aborted" after a failed assert
    \* the environment
    now,                      \* steady_clock::now()
    battery_soc,              \* the updater's battery state, as a fraction
    obs,                      \* the calls the last operation made outwards
    \* what an observer of the handle has seen so far
    sent,                     \* the last two commands transmitted, in order
    issue,                    \* the current command: issue time, rebroadcasts
    err_run,                  \* the current run of AdapterError telemetry
    pushes,                   \* the times of the last two docking schedule
                              \* pushes
    finished_calls,           \* how often each dock_finished_callback has
                              \* been invoked
    finished_notices,         \* how often finished() was invoked since the
                              \* last set_action_execution
    \* Connections
    robots,                   \* name -> "absent", "null" or "handle"
    registering,              \* robots whose add_robot callback is pending
    closed_lanes,             \* the fleet-wide closed lane set
    updater_closed_lanes,     \* the lanes closed in the FleetUpdateHandle
    \* the threads that call into the handle
    mutex,                    \* the owner of the handle's _mutex, or "none"
    running,                  \* thread -> the operation it is inside of
    connections_mutex,        \* the owner of Connections::_mutex, or "none"
    in_map,                   \* thread -> the handler of the coordinator it
                              \* is inside of, with the robot map in use
    \* MoveRobot::Action
    update_timeout_timer,     \* wall time since the timer was created, reset
                              \* or fired last; nullopt without a timer
    last_update_rostime,      \* rclcpp::Time _last_update_rostime
    rostime,                  \* node()->now(), in units of 5 s
    tail_period,              \* std::optional<Duration> _tail_period
    last_tail_bump,           \* std::optional<Time> _last_tail_bump
    next_path_index,          \* std::size_t _next_path_index
    \* GoToPlace::Active::execute_plan
    plan,                     \* _plan->get_waypoints() as it was passed in
    plan_waypoints,           \* the local waypoints, not yet split
    sub_phases,               \* Task::PendingPhases sub_phases
    plan_pc                   \* "idle", "while" (at the loop test), "done"

handle_vars == <<current_task_id, current_path_request, path_requested_time,
                 travel_info, last_known_state, interrupted,
                 current_dock_request, dock_target_wp, dock_requested_time,
                 dock_schedule_time, dock_finished_callback, interruptions,
                 action_execution, pc>>

history_vars == <<sent, issue, err_run, pushes, finished_calls,
                  finished_notices>>

fleet_vars == <<robots, registering, closed_lanes, updater_closed_lanes>>

thread_vars == <<mutex, running, connections_mutex, in_map>>

action_vars == <<update_timeout_timer, last_update_rostime, rostime,
                 tail_period, last_tail_bump, next_path_index>>

plan_vars == <<plan, plan_waypoints, sub_phases, plan_pc>>

vars == <<handle_vars, now, battery_soc, obs, history_vars, fleet_vars,
          thread_vars, action_vars, plan_vars>>

\* The calls an operation makes on its collaborators: replan() calls,
\* update_position() calls, the update_battery_soc() argument, the messages
\* published, the callbacks invoked, and the interrupt()/resume() calls.
NoEffects(op) ==
    [op |-> op, replan |-> 0, update_position |-> <<>>,
     update_battery_soc |-> nullopt, published |-> <<>>, invoked |-> <<>>,
     interrupt |-> <<>>, resume |-> <<>>, warned |-> FALSE,
     arg |-> <<>>, pushed |-> FALSE, compute_plan_starts |-> 0,
     calls |-> <<>>, fleet |-> <<>>, closed_lanes_pub |-> <<>>,
     read |-> <<>>, cumulative_delay |-> <<>>]

\* one more transmission seen by the observer, who keeps the last two
transmitted(task_id, again) ==
    LET m == [task_id |-> task_id, rebroadcast |-> again]
    IN  IF sent = <<>> THEN <<m>> ELSE <<sent[Len(sent)], m>>

\* one more schedule push seen by the observer, who keeps the last two
pushed_at(t) == IF pushes = <<>> THEN <<t>> ELSE <<pushes[Len(pushes)], t>>

NoIssue == [active |-> FALSE, time |-> 0, rebroadcasts |-> 0, acked |-> FALSE,
            docking |-> FALSE]
NoRun == [active |-> FALSE, replans |-> 0, fresh |-> FALSE, acked |-> FALSE]

\* The handle as its constructor leaves it (lines 171-198, 686-707).
InitHandle ==
    /\ current_task_id = 0
    /\ current_path_request = [task_id |-> "", path |-> <<>>]
    /\ path_requested_time = 0
    /\ travel_info = [waypoints |-> <<>>, target_plan_index |-> nullopt,
                      next_arrival_estimator |-> 0,
                      path_finished_callback |-> 0,
                      last_known_wp |-> nullopt]
    /\ last_known_state = nullopt
    /\ interrupted = FALSE
    /\ current_dock_request = [task_id |-> "", dock_name |-> ""]
    /\ dock_target_wp = nullopt
    /\ dock_requested_time = 0
    /\ dock_schedule_time = 0
    /\ dock_finished_callback = 0
    /\ interruptions = {}
    /\ action_execution = nullopt
    /\ pc = "idle"

InitEnv ==
    /\ now = 0
    /\ battery_soc = nullopt
    /\ obs = NoEffects("init")
    /\ sent = <<>>
    /\ issue = NoIssue
    /\ err_run = NoRun
    /\ pushes = <<>>
    /\ finished_calls = [id \in 1..MaxTaskId |-> 0]
    /\ finished_notices = 0

\* Connections as make_fleet leaves it: no robot, no closed lane.
InitFleet ==
    /\ robots = [r \in RobotNames |-> "absent"]
    /\ registering = {}
    /\ closed_lanes = {}
    /\ updater_closed_lanes = {}

\* The threads that call into the handle: the adapter's worker and the
\* node's executor.
Threads == {"worker", "executor"}

\* a thread that is inside no operation of the handle
NoOp == [name |-> "none", arg |-> <<>>]

InitThreads ==
    /\ mutex = "none"
    /\ running = [t \in Threads |-> NoOp]
    /\ connections_mutex = "none"
    /\ in_map = [t \in Threads |-> NoOp]

\* MoveRobot::Action before it is subscribed to: no timer yet.
InitAction ==
    /\ update_timeout_timer = nullopt
    /\ last_update_rostime = 0
    /\ rostime = 0
    /\ tail_period = nullopt
    /\ last_tail_bump = nullopt
    /\ next_path_index = 0

\* GoToPlace::Active before a plan is executed
InitPlan ==
    /\ plan = <<>>
    /\ plan_waypoints = <<>>
    /\ sub_phases = <<>>
    /\ plan_pc = "idle"

Init ==
    /\ InitHandle /\ InitEnv /\ InitFleet /\ InitThreads /\ InitAction
    /\ InitPlan

\* ---------------------------------------------------------------- commands

\* the commands of RobotCommandHandle
CommandOps == {"follow_new_path", "stop", "dock"}

\* A command may be called by the planner while the handle is idle, or
\* re-entrantly from inside a completion callback (the mutex is recursive).
CanCall == pc # "aborted"

\* a _clear_last_command that leaves the path callbacks in place
kept_travel_info == travel_info

\* _clear_last_command
cleared_travel_info ==
    [travel_info EXCEPT !.next_arrival_estimator = 0,
                        !.path_finished_callback = 0]

\* a command that reuses the last task-id
same_task_id == current_task_id

\* ++_current_task_id.  The counter is a uint32_t; the model follows it up
\* to MaxTaskId, far below the value at which it wraps.
next_task_id == current_task_id + 1

\* the path of a PathRequest for a plan (lines 216-259)
request_path(waypoints) ==
    [i \in 1..Len(waypoints) |->
        Location(waypoints[i].position,
                 IF has_value(waypoints[i].graph_index)
                 THEN MapName ELSE "")]

follow_new_path(waypoints) ==
    /\ CanCall
    /\ current_task_id < MaxTaskId
    /\ dock_finished_callback' = 0
    /\ travel_info' = [travel_info EXCEPT
                          !.target_plan_index = nullopt,
                          !.waypoints = waypoints,
                          !.next_arrival_estimator = next_task_id,
                          !.path_finished_callback = next_task_id]
    /\ interrupted' = FALSE
    /\ current_task_id' = next_task_id
    /\ current_path_request' = [task_id |-> to_string(next_task_id),
                                path |-> request_path(waypoints)]
    /\ path_requested_time' = now
    /\ sent' = transmitted(to_string(next_task_id), FALSE)
    /\ obs' = [NoEffects("follow_new_path") EXCEPT
                  !.published = <<to_string(next_task_id)>>]
    /\ issue' = [active |-> TRUE, time |-> now, rebroadcasts |-> 0,
                 acked |-> FALSE, docking |-> FALSE]
    /\ err_run' = NoRun
    /\ UNCHANGED <<last_known_state, current_dock_request, dock_target_wp,
                   dock_requested_time, dock_schedule_time, interruptions,
                   action_execution, pc, now, battery_soc, pushes,
                   finished_calls, finished_notices, fleet_vars>>

stop ==
    /\ CanCall
    /\ dock_finished_callback' = 0
    /\ travel_info' = cleared_travel_info
    /\ err_run' = NoRun
    /\ issue' = NoIssue
    /\ IF ~has_value(last_known_state)
       THEN /\ obs' = [NoEffects("stop") EXCEPT !.warned = TRUE]
            /\ UNCHANGED <<current_task_id, current_path_request,
                           path_requested_time, sent>>
       ELSE /\ current_task_id < MaxTaskId
            /\ current_task_id' = next_task_id
            /\ current_path_request' =
                   [task_id |-> to_string(next_task_id),
                    path |-> <<value(last_known_state).location>>]
            /\ path_requested_time' = now
            /\ sent' = transmitted(to_string(next_task_id), FALSE)
            /\ obs' = [NoEffects("stop") EXCEPT
                          !.published = <<to_string(next_task_id)>>]
    /\ UNCHANGED <<last_known_state, interrupted, current_dock_request,
                   dock_target_wp, dock_requested_time, dock_schedule_time,
                   interruptions, action_execution, pc, now, battery_soc,
                   pushes, finished_calls, finished_notices, fleet_vars>>

\* the lane search of dock (lines 335-350): the entry waypoint of the first
\* lane whose entry event is Dock(dock_name)
find_dock_target(dock_name) ==
    LET found == {l \in LaneIndices : get_lane(l).dock = dock_name}
    IN  IF found = {} THEN nullopt
        ELSE Some(get_lane(CHOOSE l \in found : \A k \in found : l <= k).entry)

\* assert(_dock_target_wp) aborts a build with assertions; a build without
\* them goes on with an empty optional.
dock(dock_name) ==
    /\ CanCall
    /\ current_task_id < MaxTaskId
    /\ travel_info' = cleared_travel_info
    /\ dock_finished_callback' = next_task_id
    /\ current_dock_request' = [task_id |-> to_string(next_task_id),
                                dock_name |-> dock_name]
    /\ current_task_id' = next_task_id
    /\ dock_requested_time' = now
    /\ sent' = transmitted(to_string(next_task_id), FALSE)
    /\ obs' = [NoEffects("dock") EXCEPT
                  !.published = <<to_string(next_task_id)>>]
    /\ dock_target_wp' = find_dock_target(dock_name)
    /\ IF has_value(find_dock_target(dock_name))
       THEN pc' = pc
       ELSE pc' \in {"aborted", pc}
    /\ issue' = [active |-> TRUE, time |-> now, rebroadcasts |-> 0,
                 acked |-> FALSE, docking |-> FALSE]
    /\ err_run' = NoRun
    /\ UNCHANGED <<current_path_request, path_requested_time,
                   last_known_state, interrupted, dock_schedule_time,
                   interruptions, action_execution, now, battery_soc,
                   pushes, finished_calls, finished_notices, fleet_vars>>

\* -------------------------------------------------------------- estimation
\* The estimation functions of estimation.hpp, from their description in the
\* specification (4.2.3).

\* the graph waypoint a location is co-located with, if any
located_waypoint(loc) ==
    LET at == {w \in WaypointIndices :
                  loc.level_name = MapName
                  /\ get_location(w) = <<loc.x, loc.y>>}
    IN  IF at = {} THEN nullopt ELSE Some(CHOOSE w \in at : TRUE)

\* estimate_state / estimate_waypoint: project the reported position onto the
\* graph; last_known_wp follows when the robot is on a graph waypoint.
estimate_state(info, loc) ==
    IF has_value(located_waypoint(loc))
    THEN [info EXCEPT !.last_known_wp = located_waypoint(loc)]
    ELSE info

estimate_call(loc) == [kind |-> "estimate", x |-> loc.x, y |-> loc.y, at |-> 0]

\* check_path_finish: the reported position matches the final plan waypoint
path_finished(info, state) ==
    /\ info.waypoints # <<>>
    /\ info.waypoints[Len(info.waypoints)].position
           = <<state.location.x, state.location.y>>

\* estimate_path_traveling: the next plan waypoint the robot has not yet
\* reached, the residual path being the locations not yet reached
next_target(info, state) ==
    IF Len(state.path) <= Len(info.waypoints)
    THEN Some(Len(info.waypoints) - Len(state.path))
    ELSE nullopt

\* ------------------------------------------------------------ update_state

\* battery_percent / 100.0, as a fraction
battery_fraction(percent) == [num |-> percent, den |-> BatteryScale]

\* a validity check that excludes both ends of the range
battery_valid_open(soc) == 0 * soc.den < soc.num /\ soc.num < 1 * soc.den

\* battery_soc >= 0.0 && battery_soc <= 1.0
battery_valid(soc) == 0 * soc.den <= soc.num /\ soc.num <= 1 * soc.den

\* a resend that does not wait
resend_always(t, requested_time) == TRUE

\* an echo that is taken for the command's whatever it is
acknowledged_always(echo, task_id) == TRUE

\* !(state.task_id != request.task_id) (lines 401, 447)
acknowledged(echo, task_id) == echo = task_id

\* a resend that is never due
resend_never(t, requested_time) == FALSE

\* a resend that is due as soon as the interval has passed
resend_on_interval(t, requested_time) == ResendInterval <= t - requested_time

\* std::chrono::milliseconds(200) < now - requested_time
resend_due(t, requested_time) == ResendInterval < t - requested_time

\* a schedule push that does not wait
dock_schedule_always(t, schedule_time) == TRUE

\* std::chrono::seconds(1) < now - _dock_schedule_time
dock_schedule_due(t, schedule_time) == DockScheduleInterval < t - schedule_time

\* an AdapterError branch that forgets it has replanned
never_noticed(flag) == FALSE

\* if (_interrupted) return;
already_noticed(flag) == flag

\* the run of AdapterError telemetry of a path-following handle, after one
\* more update_state that made r replan calls
run_after(state, following, r, echo) ==
    IF following /\ state.mode = "MODE_ADAPTER_ERROR"
    THEN IF err_run.active
         THEN [err_run EXCEPT !.replans = @ + r, !.acked = @ \/ echo]
         ELSE [active |-> TRUE, replans |-> r, fresh |-> ~interrupted,
               acked |-> echo]
    ELSE NoRun

\* a dock that is over only once the robot has been seen docking
left_after_docking(mode) == mode # "MODE_DOCKING" /\ issue.docking

\* if (state.mode != state.mode.MODE_DOCKING) (line 462)
left_docking(mode) == mode # "MODE_DOCKING"

\* a callback slot that always counts as filled
has_callback_always(callback) == TRUE

\* if (_travel_info.path_finished_callback), if (_dock_finished_callback):
\* the slot holds a callable
has_callback(callback) == callback # 0

rebroadcast_counted ==
    IF issue.active /\ ~issue.acked
    THEN [issue EXCEPT !.rebroadcasts = @ + 1]
    ELSE issue

\* update_state, its effects added to those of the caller (frame)
update_state_in(state, frame) ==
    LET soc == battery_fraction(state.battery_percent)
        base == [frame EXCEPT
                    !.arg = <<state>>,
                    !.update_battery_soc =
                        IF battery_valid(soc) THEN Some(soc) ELSE nullopt]
        info == [travel_info EXCEPT !.target_plan_index = nullopt]
        loc == state.location
    IN
    /\ pc = "idle"
    /\ last_known_state' = Some([location |-> loc])
    /\ battery_soc' = IF battery_valid(soc) THEN Some(soc) ELSE battery_soc
    /\ finished_calls' =
           IF /\ travel_info.path_finished_callback = 0
              /\ dock_finished_callback # 0
              /\ acknowledged(state.task_id, current_dock_request.task_id)
              /\ left_docking(state.mode)
           THEN [finished_calls EXCEPT
                    ![dock_finished_callback] = IF @ < MaxCalls THEN @ + 1
                                                ELSE @]
           ELSE finished_calls
    /\ IF has_callback(travel_info.path_finished_callback)
       THEN \* following a path
            IF ~acknowledged(state.task_id, current_path_request.task_id)
            THEN LET resend == resend_due(now, path_requested_time)
                 IN /\ path_requested_time' =
                           IF resend THEN now ELSE path_requested_time
                    /\ sent' = IF resend
                               THEN transmitted(
                                        current_path_request.task_id, TRUE)
                               ELSE sent
                    /\ issue' = IF resend THEN rebroadcast_counted ELSE issue
                    /\ obs' = [base EXCEPT
                                  !.published =
                                      IF resend
                                      THEN <<current_path_request.task_id>>
                                      ELSE <<>>,
                                  !.update_position = <<estimate_call(loc)>>]
                    /\ travel_info' = estimate_state(info, loc)
                    /\ err_run' = run_after(state, TRUE, 0, FALSE)
                    /\ UNCHANGED <<interrupted, dock_requested_time,
                                   dock_schedule_time, pc, pushes>>
            ELSE IF state.mode = "MODE_ADAPTER_ERROR"
            THEN IF already_noticed(interrupted)
                 THEN /\ obs' = base
                      /\ travel_info' = info
                      /\ err_run' = run_after(state, TRUE, 0, TRUE)
                      /\ issue' = [issue EXCEPT !.acked = TRUE]
                      /\ UNCHANGED <<interrupted, path_requested_time,
                                     dock_requested_time, dock_schedule_time,
                                     pc, pushes, sent>>
                 ELSE /\ interrupted' = TRUE
                      /\ travel_info' = estimate_state(info, loc)
                      /\ obs' = [base EXCEPT
                                    !.update_position = <<estimate_call(loc)>>,
                                    !.replan = 1]
                      /\ err_run' = run_after(state, TRUE, 1, TRUE)
                      /\ issue' = [issue EXCEPT !.acked = TRUE]
                      /\ UNCHANGED <<path_requested_time,
                                     dock_requested_time, dock_schedule_time,
                                     pc, pushes, sent>>
            ELSE IF state.path = <<>>
            THEN \* check_path_finish
                 /\ IF path_finished(info, state)
                    THEN /\ pc' = "path_finished_callback"
                         /\ obs' = [base EXCEPT
                                 !.invoked =
                                    <<[callback |-> "path_finished_callback",
                                       id |-> info.path_finished_callback]>>]
                         /\ travel_info' = estimate_state(info, loc)
                    ELSE /\ pc' = pc
                         /\ obs' = base
                         /\ travel_info' = info
                 /\ err_run' = NoRun
                 /\ issue' = [issue EXCEPT !.acked = TRUE]
                 /\ UNCHANGED <<interrupted, path_requested_time,
                                dock_requested_time, dock_schedule_time,
                                pushes, sent>>
            ELSE \* estimate_path_traveling
                 /\ travel_info' =
                        [estimate_state(info, loc) EXCEPT
                            !.target_plan_index = next_target(info, state)]
                 /\ obs' = [base EXCEPT
                               !.invoked =
                                   <<[callback |-> "next_arrival_estimator",
                                      id |-> info.next_arrival_estimator]>>]
                 /\ err_run' = NoRun
                 /\ issue' = [issue EXCEPT !.acked = TRUE]
                 /\ UNCHANGED <<interrupted, path_requested_time,
                                dock_requested_time, dock_schedule_time,
                                pc, pushes, sent>>
       ELSE IF has_callback(dock_finished_callback)
       THEN \* docking
            IF ~acknowledged(state.task_id, current_dock_request.task_id)
            THEN LET resend == resend_due(now, dock_requested_time)
                 IN /\ dock_requested_time' =
                           IF resend THEN now ELSE dock_requested_time
                    /\ sent' = IF resend
                               THEN transmitted(
                                        current_dock_request.task_id, TRUE)
                               ELSE sent
                    /\ issue' = IF resend THEN rebroadcast_counted ELSE issue
                    /\ obs' = [base EXCEPT
                                  !.published =
                                      IF resend
                                      THEN <<current_dock_request.task_id>>
                                      ELSE <<>>]
                    /\ travel_info' = info
                    /\ err_run' = NoRun
                    /\ UNCHANGED <<interrupted, path_requested_time,
                                   dock_schedule_time, pc, pushes>>
            ELSE IF left_docking(state.mode)
            THEN \* docking has finished; an empty _dock_target_wp is read
                 \* as whatever lies there
                 /\ \E w \in (IF has_value(dock_target_wp)
                              THEN {value(dock_target_wp)}
                              ELSE WaypointIndices) :
                       travel_info' = [info EXCEPT !.last_known_wp = Some(w)]
                 /\ obs' = [base EXCEPT
                               !.update_position = <<estimate_call(loc)>>,
                               !.invoked =
                                   <<[callback |-> "dock_finished_callback",
                                      id |-> dock_finished_callback]>>]
                 /\ pc' = "dock_finished_callback"
                 /\ err_run' = NoRun
                 /\ issue' = [issue EXCEPT !.acked = TRUE]
                 /\ UNCHANGED <<interrupted, path_requested_time,
                                dock_requested_time, dock_schedule_time,
                                pushes, sent>>
            ELSE \* still docking: the docking path goes to the schedule.
                 \* Whether the interpolated trajectory has two points and
                 \* whether the updater has a participant is the
                 \* collaborators' answer.
                 /\ \E trajectory_ok \in BOOLEAN, participant \in BOOLEAN :
                       LET push == /\ state.path # <<>>
                                   /\ dock_schedule_due(now, dock_schedule_time)
                                   /\ trajectory_ok
                                   /\ participant
                       IN /\ dock_schedule_time' =
                                 IF push THEN now ELSE dock_schedule_time
                          /\ pushes' = IF push THEN pushed_at(now)
                                       ELSE pushes
                          /\ obs' = [base EXCEPT !.pushed = push]
                 /\ travel_info' = info
                 /\ err_run' = NoRun
                 /\ issue' = [issue EXCEPT !.acked = TRUE, !.docking = TRUE]
                 /\ UNCHANGED <<interrupted, path_requested_time,
                                dock_requested_time, pc, sent>>
       ELSE \* not under our command
            /\ travel_info' = estimate_state(info, loc)
            /\ obs' = [base EXCEPT !.update_position = <<estimate_call(loc)>>]
            /\ err_run' = NoRun
            /\ UNCHANGED <<interrupted, path_requested_time,
                           dock_requested_time, dock_schedule_time, pc,
                           pushes, sent, issue>>
    /\ UNCHANGED <<current_task_id, current_path_request,
                   current_dock_request, dock_target_wp,
                   dock_finished_callback, interruptions, action_execution,
                   now, finished_notices>>

update_state(state) ==
    /\ update_state_in(state, NoEffects("update_state"))
    /\ UNCHANGED fleet_vars

\* a return from the callback that leaves the callback in its slot
dock_finished_kept ==
    /\ pc = "dock_finished_callback"
    /\ pc' = "idle"
    /\ UNCHANGED <<current_task_id, current_path_request, path_requested_time,
                   travel_info, last_known_state, interrupted,
                   current_dock_request, dock_target_wp, dock_requested_time,
                   dock_schedule_time, dock_finished_callback, interruptions,
                   action_execution, now, battery_soc, obs, history_vars,
                   fleet_vars>>

\* update_state after _dock_finished_callback() has returned (line 467)
dock_finished_return ==
    /\ pc = "dock_finished_callback"
    /\ dock_finished_callback' = 0
    /\ pc' = "idle"
    /\ UNCHANGED <<current_task_id, current_path_request, path_requested_time,
                   travel_info, last_known_state, interrupted,
                   current_dock_request, dock_target_wp, dock_requested_time,
                   dock_schedule_time, interruptions, action_execution,
                   now, battery_soc, obs, history_vars, fleet_vars>>

\* check_path_finish after path_finished_callback() has returned: the handle
\* is Idle
path_finished_return ==
    /\ pc = "path_finished_callback"
    /\ travel_info' = cleared_travel_info
    /\ pc' = "idle"
    /\ UNCHANGED <<current_task_id, current_path_request, path_requested_time,
                   last_known_state, interrupted, current_dock_request,
                   dock_target_wp, dock_requested_time, dock_schedule_time,
                   dock_finished_callback, interruptions, action_execution,
                   now, battery_soc, obs, history_vars, fleet_vars>>

\* the steady clock advances; whatever is observed afterwards is no longer
\* the effect of an operation at the present time
Tick(limit) ==
    /\ pc = "idle"
    /\ now < limit
    /\ now' = now + 1
    /\ obs' = NoEffects("Tick")
    /\ UNCHANGED <<handle_vars, battery_soc, history_vars, fleet_vars>>

\* ------------------------------------------------------ newly_closed_lanes

\* a lane test that counts the exit waypoint as part of the lane
on_lane_or_exit(p, l) ==
    LET p0 == get_location(get_lane(l).entry)
        p1 == get_location(get_lane(l).exit)
    IN  /\ Dot(Minus(p, p0), Minus(p1, p0)) >= 0
        /\ Dot(Minus(p, p1), Minus(p1, p0)) <= 0

\* !before_blocked_lane && !after_blocked_lane (lines 568-570)
on_lane(p, l) ==
    LET p0 == get_location(get_lane(l).entry)
        p1 == get_location(get_lane(l).exit)
        before_blocked_lane == Dot(Minus(p, p0), Minus(p1, p0)) < 0
        after_blocked_lane == Dot(Minus(p, p1), Minus(p1, p0)) >= 0
    IN  ~before_blocked_lane /\ ~after_blocked_lane

\* the update_position call for a robot on the closed lane l (lines 574-594)
reverse_position(p, l) ==
    LET wp0 == get_lane(l).entry
        wp1 == get_lane(l).exit
        reverse_lane == lane_from(wp1, wp0)
    IN  IF has_value(reverse_lane)
        THEN [kind |-> "lanes", x |-> p[1], y |-> p[2],
              at |-> value(reverse_lane)]
        ELSE [kind |-> "waypoint", x |-> p[1], y |-> p[2], at |-> wp0]

\* the approach lanes of the plan waypoint with the 0-based index i
approach_lanes(info, i) == info.waypoints[i + 1].approach_lanes

\* the first loop (lines 551-597): the closed approach lanes of the target
\* waypoint, in order
current_closed(info, closed) ==
    SelectSeq(approach_lanes(info, value(info.target_plan_index)),
              LAMBDA l : l \in closed)

\* a newly_closed_lanes without its second loop
remainder_ignored(info, closed) == FALSE

\* the second loop (lines 605-618): a closed approach lane from the target
\* waypoint to the end of the plan
remainder_closed(info, closed) ==
    \E i \in value(info.target_plan_index)..(Len(info.waypoints) - 1) :
        \E k \in 1..Len(approach_lanes(info, i)) :
            approach_lanes(info, i)[k] \in closed

\* the calls newly_closed_lanes makes on the updater: update_position for
\* each closed approach lane the robot is on, and replan
newly_closed_calls(closed) ==
    LET info == travel_info
        targeted == has_value(info.target_plan_index)
        p == <<value(last_known_state).location.x,
               value(last_known_state).location.y>>
        current == IF targeted THEN current_closed(info, closed) ELSE <<>>
        stranded == SelectSeq(current, LAMBDA l : on_lane(p, l))
        need_to_replan ==
            \/ current # <<>>
            \/ targeted /\ remainder_closed(info, closed)
    IN  [update_position |-> [k \in 1..Len(stranded) |->
                                 reverse_position(p, stranded[k])],
         replan |-> IF need_to_replan THEN 1 ELSE 0]

\* newly_closed_lanes takes no lock: it runs whenever the fleet calls it.
newly_closed_lanes(closed) ==
    /\ pc # "aborted"
    /\ obs' = [NoEffects("newly_closed_lanes") EXCEPT
                  !.arg = <<closed>>,
                  !.update_position =
                      newly_closed_calls(closed).update_position,
                  !.replan = newly_closed_calls(closed).replan]
    /\ UNCHANGED <<handle_vars, now, battery_soc, history_vars, fleet_vars>>

\* ------------------------------------------------- interrupts and actions

\* a registry lookup that never finds the id
never_registered(id, registry) == FALSE

\* it != _interruptions.end()
is_registered(id, registry) == id \in registry

\* rmf_fleet_msgs::msg::InterruptRequest
InterruptRequest(id, type, labels) ==
    [interrupt_id |-> id, type |-> type, labels |-> labels]

\* handle_interrupt_request, its effects added to those of the caller (frame)
handle_interrupt_request_in(request, frame) ==
    /\ pc # "aborted"
    /\ IF ~is_registered(request.interrupt_id, interruptions)
       THEN IF request.type = "TYPE_RESUME"
            THEN /\ interruptions' = interruptions
                 /\ obs' = [frame EXCEPT
                               !.arg = <<request>>]
            ELSE /\ interruptions' = interruptions \cup {request.interrupt_id}
                 /\ obs' = [frame EXCEPT
                               !.arg = <<request>>,
                               !.interrupt = <<request.labels>>]
       ELSE IF request.type = "TYPE_INTERRUPT"
            THEN /\ interruptions' = interruptions
                 /\ obs' = [frame EXCEPT
                               !.arg = <<request>>]
            ELSE /\ interruptions' = interruptions \ {request.interrupt_id}
                 /\ obs' = [frame EXCEPT
                               !.arg = <<request>>,
                               !.resume = <<[id |-> request.interrupt_id,
                                             labels |-> request.labels]>>]
    /\ UNCHANGED <<current_task_id, current_path_request, path_requested_time,
                   travel_info, last_known_state, interrupted,
                   current_dock_request, dock_target_wp, dock_requested_time,
                   dock_schedule_time, dock_finished_callback,
                   action_execution, pc, now, battery_soc, history_vars>>

handle_interrupt_request(request) ==
    /\ handle_interrupt_request_in(request,
                                   NoEffects("handle_interrupt_request"))
    /\ UNCHANGED fleet_vars

set_action_execution(execution) ==
    /\ pc # "aborted"
    /\ action_execution' = Some(execution)
    /\ finished_notices' = 0
    /\ obs' = [NoEffects("set_action_execution") EXCEPT !.arg = <<execution>>]
    /\ UNCHANGED <<current_task_id, current_path_request, path_requested_time,
                   travel_info, last_known_state, interrupted,
                   current_dock_request, dock_target_wp, dock_requested_time,
                   dock_schedule_time, dock_finished_callback, interruptions,
                   pc, now, battery_soc, sent, issue, err_run, pushes,
                   finished_calls, fleet_vars>>

\* a complete_robot_action that leaves the action execution in its slot
complete_robot_action_kept ==
    /\ pc # "aborted"
    /\ action_execution' = action_execution
    /\ finished_notices' =
           IF has_value(action_execution) /\ finished_notices < MaxCalls
           THEN finished_notices + 1
           ELSE finished_notices
    /\ obs' = [NoEffects("complete_robot_action") EXCEPT
                  !.invoked =
                      IF has_value(action_execution)
                      THEN <<[callback |-> "finished",
                              id |-> value(action_execution)]>>
                      ELSE <<>>]
    /\ UNCHANGED <<current_task_id, current_path_request, path_requested_time,
                   travel_info, last_known_state, interrupted,
                   current_dock_request, dock_target_wp, dock_requested_time,
                   dock_schedule_time, dock_finished_callback, interruptions,
                   pc, now, battery_soc, sent, issue, err_run, pushes,
                   finished_calls, fleet_vars>>

\* complete_robot_action, its effects added to those of the caller (frame)
complete_robot_action_in(frame) ==
    /\ pc # "aborted"
    /\ action_execution' = nullopt
    /\ finished_notices' =
           IF has_value(action_execution) /\ finished_notices < MaxCalls
           THEN finished_notices + 1
           ELSE finished_notices
    /\ obs' = [frame EXCEPT
                  !.invoked =
                      IF has_value(action_execution)
                      THEN <<[callback |-> "finished",
                              id |-> value(action_execution)]>>
                      ELSE <<>>]
    /\ UNCHANGED <<current_task_id, current_path_request, path_requested_time,
                   travel_info, last_known_state, interrupted,
                   current_dock_request, dock_target_wp, dock_requested_time,
                   dock_schedule_time, dock_finished_callback, interruptions,
                   pc, now, battery_soc, sent, issue, err_run, pushes,
                   finished_calls>>

complete_robot_action ==
    /\ complete_robot_action_in(NoEffects("complete_robot_action"))
    /\ UNCHANGED fleet_vars

\* ------------------------------------------------------ the command handle

\* The task-ids a driver echoes: that of the handle's latest command, or a
\* stale one ("0" is the id of no command).
Echoes == {"0", to_string(current_task_id)}

HomeLocation == Location(<<4, 4>>, MapName)
AwayLocation == Location(<<2, 0>>, MapName)

\* The telemetry of the command specification: every echo, mode and residual
\* path at the plans' last waypoint and on the way, and every battery level.
Snapshots ==
    {RobotState(RobotName, e, m, 50, HomeLocation, p) :
        e \in Echoes,
        m \in {"MODE_MOVING", "MODE_DOCKING", "MODE_ADAPTER_ERROR"},
        p \in {<<>>, <<HomeLocation>>}}
    \cup
    {RobotState(RobotName, e, "MODE_MOVING", 50, AwayLocation, <<>>) :
        e \in Echoes}

Next ==
    \/ /\ follow_new_path(PlanStraight)
       /\ UNCHANGED <<thread_vars, action_vars, plan_vars>>
    \/ /\ stop
       /\ UNCHANGED <<thread_vars, action_vars, plan_vars>>
    \/ /\ \E d \in DockNames : dock(d)
       /\ UNCHANGED <<thread_vars, action_vars, plan_vars>>
    \/ /\ \E s \in Snapshots : update_state(s)
       /\ UNCHANGED <<thread_vars, action_vars, plan_vars>>
    \/ /\ dock_finished_return
       /\ UNCHANGED <<thread_vars, action_vars, plan_vars>>
    \/ /\ path_finished_return
       /\ UNCHANGED <<thread_vars, action_vars, plan_vars>>
    \/ /\ Tick(MaxTime)
       /\ UNCHANGED <<thread_vars, action_vars, plan_vars>>

Spec == Init /\ [][Next]_vars

\* ------------------------------------------------------------- the battery

BatteryLevels == {-1, 0, 50, 100, 101}

\* Telemetry with battery levels inside, on the edge of and outside 0..100.
BatterySnapshots ==
    {RobotState(RobotName, e, "MODE_MOVING", b, AwayLocation, <<HomeLocation>>) :
        e \in Echoes, b \in BatteryLevels}

NextBattery ==
    \/ /\ follow_new_path(PlanStraight)
       /\ UNCHANGED <<thread_vars, action_vars, plan_vars>>
    \/ /\ stop
       /\ UNCHANGED <<thread_vars, action_vars, plan_vars>>
    \/ /\ dock("dockA")
       /\ UNCHANGED <<thread_vars, action_vars, plan_vars>>
    \/ /\ \E s \in BatterySnapshots : update_state(s)
       /\ UNCHANGED <<thread_vars, action_vars, plan_vars>>

SpecBattery == Init /\ [][NextBattery]_vars

\* ------------------------------------------------------------------ resends

\* The telemetry of a robot on its way that echoes the handle's latest
\* command, or a stale one.
ResendSnapshots ==
    {RobotState(RobotName, e, "MODE_MOVING", 50, AwayLocation,
                <<HomeLocation>>) : e \in Echoes}

NextResend ==
    \/ /\ follow_new_path(PlanStraight)
       /\ UNCHANGED <<thread_vars, action_vars, plan_vars>>
    \/ /\ dock("dockA")
       /\ UNCHANGED <<thread_vars, action_vars, plan_vars>>
    \/ /\ \E s \in ResendSnapshots : update_state(s)
       /\ UNCHANGED <<thread_vars, action_vars, plan_vars>>
    \/ /\ dock_finished_return
       /\ UNCHANGED <<thread_vars, action_vars, plan_vars>>
    \/ /\ Tick(MaxResendTime)
       /\ UNCHANGED <<thread_vars, action_vars, plan_vars>>

SpecResend == Init /\ [][NextResend]_vars

\* telemetry that does not echo the handle's latest command
StaleTelemetry ==
    \E s \in ResendSnapshots :
        /\ s.task_id # to_string(current_task_id)
        /\ update_state(s)
        /\ UNCHANGED <<thread_vars, action_vars, plan_vars>>

\* The resend specification with a clock that keeps advancing, telemetry
\* without the echo that keeps arriving, and callbacks that return.
SpecResendFair ==
    /\ SpecResend
    /\ WF_vars(Tick(MaxResendTime)
                 /\ UNCHANGED <<thread_vars, action_vars, plan_vars>>)
    /\ SF_vars(StaleTelemetry)
    /\ WF_vars(dock_finished_return
                 /\ UNCHANGED <<thread_vars, action_vars, plan_vars>>)

\* ----------------------------------------------------------------- docking

\* The telemetry of a robot that has taken the dock command: it is still
\* docking or no longer, and reports a docking path or none.
DockSnapshots ==
    {RobotState(RobotName, to_string(current_task_id), m, 50,
                HomeLocation, p) :
        m \in {"MODE_DOCKING", "MODE_MOVING"},
        p \in {<<>>, <<HomeLocation>>}}

NextDock ==
    \/ /\ dock("dockA")
       /\ UNCHANGED <<thread_vars, action_vars, plan_vars>>
    \/ /\ \E s \in DockSnapshots : update_state(s)
       /\ UNCHANGED <<thread_vars, action_vars, plan_vars>>
    \/ /\ dock_finished_return
       /\ UNCHANGED <<thread_vars, action_vars, plan_vars>>
    \/ /\ Tick(MaxDockTime)
       /\ UNCHANGED <<thread_vars, action_vars, plan_vars>>

SpecDock == Init /\ [][NextDock]_vars

\* ------------------------------------------------------------ lane closures

\* The telemetry of a robot on its way: at each position, with two, one or
\* no plan waypoint still ahead.
LaneSnapshots ==
    {RobotState(RobotName, e, "MODE_MOVING", 50, Location(q, MapName), p) :
        e \in Echoes,
        q \in Positions,
        p \in {<<>>, <<HomeLocation>>, <<HomeLocation, HomeLocation>>}}

NextLanes ==
    \/ /\ \E w \in Plans : follow_new_path(w)
       /\ UNCHANGED <<thread_vars, action_vars, plan_vars>>
    \/ /\ stop
       /\ UNCHANGED <<thread_vars, action_vars, plan_vars>>
    \/ /\ dock("dockA")
       /\ UNCHANGED <<thread_vars, action_vars, plan_vars>>
    \/ /\ \E s \in LaneSnapshots : update_state(s)
       /\ UNCHANGED <<thread_vars, action_vars, plan_vars>>
    \/ /\ dock_finished_return
       /\ UNCHANGED <<thread_vars, action_vars, plan_vars>>
    \/ /\ \E closed \in SUBSET LaneIndices : newly_closed_lanes(closed)
       /\ UNCHANGED <<thread_vars, action_vars, plan_vars>>

SpecLanes == Init /\ [][NextLanes]_vars

\* ---------------------------------------------------- interrupts and actions

InterruptIds == {"i1", "i2"}
InterruptTypes == {"TYPE_INTERRUPT", "TYPE_RESUME"}
InterruptLabels == {<<"a">>, <<"b">>}
ActionExecutions == {1, 2}

NextControl ==
    \/ /\ \E id \in InterruptIds, type \in InterruptTypes,
             labels \in InterruptLabels :
             handle_interrupt_request(InterruptRequest(id, type, labels))
       /\ UNCHANGED <<thread_vars, action_vars, plan_vars>>
    \/ /\ \E e \in ActionExecutions : set_action_execution(e)
       /\ UNCHANGED <<thread_vars, action_vars, plan_vars>>
    \/ /\ complete_robot_action
       /\ UNCHANGED <<thread_vars, action_vars, plan_vars>>

SpecControl == Init /\ [][NextControl]_vars

\* ------------------------------------------------------------- Connections

\* rmf_traffic::agv::compute_plan_starts: the waypoints a robot may start
\* from; none when no waypoint is on the map the robot reports.
compute_plan_starts(loc) ==
    {w \in WaypointIndices : loc.level_name = MapName}

\* an add_robot that never hands the robot to the fleet
add_robot_dropped(state, completed) ==
    [entry |-> "null", registering |-> registering, warned |-> FALSE]

\* Connections::add_robot: what it leaves in robots[state.name], the
\* registrations pending after it, and whether it logged the diagnostic.
\* FleetUpdateHandle::add_robot invokes the callback that stores the handle
\* before it returns (completed) or later, from the adapter's worker.
add_robot(state, completed) ==
    LET starts == compute_plan_starts(state.location)
    IN  [entry |-> IF starts # {} /\ completed THEN "handle" ELSE "null",
         registering |-> IF starts # {} /\ ~completed
                         THEN registering \cup {state.name}
                         ELSE registering,
         warned |-> (starts = {})]

\* the fleet state subscription, for a message with one robot
fleet_state_sub(state) ==
    /\ pc # "aborted"
    /\ \E completed \in BOOLEAN :
        LET new_robot == robots[state.name] = "absent"
            added == add_robot(state, completed)
            command == IF new_robot THEN added.entry ELSE robots[state.name]
            frame == [NoEffects("fleet_state_sub") EXCEPT
                         !.arg = <<state>>,
                         !.compute_plan_starts = IF new_robot THEN 1 ELSE 0,
                         !.warned = new_robot /\ added.warned]
            forwarded == [frame EXCEPT
                             !.calls = <<[robot |-> state.name,
                                          op |-> "update_state"]>>]
        IN  /\ robots' = [robots EXCEPT ![state.name] = command]
            /\ registering' = IF new_robot THEN added.registering
                              ELSE registering
            /\ UNCHANGED <<closed_lanes, updater_closed_lanes>>
            /\ IF command = "handle"
               THEN IF state.name = RobotName
                    THEN update_state_in(state, forwarded)
                    ELSE /\ obs' = forwarded
                         /\ UNCHANGED <<handle_vars, now, battery_soc,
                                        history_vars>>
               ELSE /\ obs' = frame
                    /\ UNCHANGED <<handle_vars, now, battery_soc,
                                   history_vars>>

\* the callback given to FleetUpdateHandle::add_robot (lines 867-913)
robot_added(name) ==
    /\ pc # "aborted"
    /\ name \in registering
    /\ registering' = registering \ {name}
    /\ robots' = [robots EXCEPT ![name] = "handle"]
    /\ obs' = [NoEffects("robot_added") EXCEPT !.arg = <<name>>]
    /\ UNCHANGED <<handle_vars, now, battery_soc, history_vars, closed_lanes,
                   updater_closed_lanes>>

FleetName == "fleet"

\* rmf_fleet_msgs::msg::InterruptRequest as the subscription receives it
FleetInterruptRequest(fleet, robot, id, type, labels) ==
    [fleet_name |-> fleet, robot_name |-> robot, interrupt_id |-> id,
     type |-> type, labels |-> labels]

\* the interrupt request subscription (lines 1099-1125). An entry of robots
\* that holds no handle is dereferenced all the same: the process ends
\* there, or goes on with whatever the call on a null handle does.
interrupt_request_sub(request) ==
    LET frame == [NoEffects("interrupt_request_sub") EXCEPT
                     !.arg = <<request>>]
        called == [frame EXCEPT
                      !.calls = <<[robot |-> request.robot_name,
                                   op |-> "handle_interrupt_request"]>>]
        entry == IF request.robot_name \in DOMAIN robots
                 THEN robots[request.robot_name] ELSE "absent"
    IN  /\ pc # "aborted"
        /\ UNCHANGED fleet_vars
        /\ IF request.fleet_name # FleetName
           THEN /\ obs' = frame
                /\ UNCHANGED <<handle_vars, now, battery_soc, history_vars>>
           ELSE IF entry = "absent"
           THEN /\ obs' = [frame EXCEPT !.warned = TRUE]
                /\ UNCHANGED <<handle_vars, now, battery_soc, history_vars>>
           ELSE IF entry = "handle"
           THEN IF request.robot_name = RobotName
                THEN handle_interrupt_request_in(request, called)
                ELSE /\ obs' = called
                     /\ UNCHANGED <<handle_vars, now, battery_soc,
                                    history_vars>>
           ELSE /\ obs' = called
                /\ pc' \in {"aborted", pc}
                /\ UNCHANGED <<current_task_id, current_path_request,
                               path_requested_time, travel_info,
                               last_known_state, interrupted,
                               current_dock_request, dock_target_wp,
                               dock_requested_time, dock_schedule_time,
                               dock_finished_callback, interruptions,
                               action_execution, now, battery_soc,
                               history_vars>>

\* The interrupt requests of the fleet: for each robot, to interrupt or to
\* resume, and one for another fleet.
FleetInterruptRequests ==
    {FleetInterruptRequest(FleetName, r, "i1", t, <<"a">>) :
        r \in RobotNames, t \in InterruptTypes}
    \cup {FleetInterruptRequest("other", RobotName, "i1", "TYPE_INTERRUPT",
                                <<"a">>)}

\* rmf_fleet_msgs::msg::LaneRequest
LaneRequest(fleet, open, close) ==
    [fleet_name |-> fleet, open_lanes |-> open, close_lanes |-> close]

Range(seq) == {seq[i] : i \in 1..Len(seq)}

\* a newly closed set that takes every lane of close_lanes
every_closed(close, before) == Range(close)

\* the first loop of the lane closure subscription (lines 1045-1052): the
\* lanes of close_lanes that the closed lane set did not count
newly_closed(close, before) ==
    {close[i] : i \in {j \in 1..Len(close) : close[j] \notin before}}

\* connections->closed_lanes after both loops (lines 1045-1055): the lanes
\* of close_lanes are inserted, then those of open_lanes erased
closed_after(before, open, close) ==
    (before \cup Range(close)) \ Range(open)

\* FleetUpdateHandle::open_lanes followed by FleetUpdateHandle::close_lanes
\* (lines 1042-1043), as the specification describes the updater
updater_closed_after(before, open, close) ==
    (before \ Range(open)) \cup Range(close)

\* the order in which the fan-out is recorded
RobotOrder == <<"r1", "r2">>

\* a subscription that takes the requests of every fleet
for_any_fleet(fleet_name) == TRUE

\* the subscription's fleet test (lines 1039-1041): the request names this
\* fleet, and the name is not empty
for_this_fleet(fleet_name) ==
    ~(fleet_name # FleetName \/ fleet_name = "")

\* the lane closure subscription (lines 1027-1068). The loop over robots
\* goes through every entry, with or without a handle: at an entry without a
\* handle the process ends, after any of the other entries, or goes on with
\* whatever the call on a null handle does.
lane_closure_request_sub(request) ==
    LET frame == [NoEffects("lane_closure_request_sub") EXCEPT
                     !.arg = <<request>>]
        accepted == for_this_fleet(request.fleet_name)
        newly == newly_closed(request.close_lanes, closed_lanes)
        entries == {r \in RobotNames : robots[r] # "absent"}
        handles == {r \in RobotNames : robots[r] = "handle"}
        call(r) == [robot |-> r, op |-> "newly_closed_lanes", arg |-> newly]
        fan_out(reached) ==
            [k \in 1..Len(SelectSeq(RobotOrder, LAMBDA r : r \in reached))
                |-> call(SelectSeq(RobotOrder, LAMBDA r : r \in reached)[k])]
        made(reached) ==
            [frame EXCEPT
                !.fleet = <<[op |-> "open_lanes",
                             lanes |-> request.open_lanes],
                            [op |-> "close_lanes",
                             lanes |-> request.close_lanes]>>,
                !.calls = fan_out(reached),
                !.update_position =
                    IF RobotName \in reached /\ robots[RobotName] = "handle"
                    THEN newly_closed_calls(newly).update_position
                    ELSE <<>>,
                !.replan =
                    IF RobotName \in reached /\ robots[RobotName] = "handle"
                    THEN newly_closed_calls(newly).replan
                    ELSE 0]
    IN  /\ pc # "aborted"
        /\ UNCHANGED <<current_task_id, current_path_request,
                       path_requested_time, travel_info, last_known_state,
                       interrupted, current_dock_request, dock_target_wp,
                       dock_requested_time, dock_schedule_time,
                       dock_finished_callback, interruptions,
                       action_execution, now, battery_soc, history_vars,
                       robots, registering>>
        /\ IF ~accepted
           THEN /\ obs' = frame
                /\ UNCHANGED <<closed_lanes, updater_closed_lanes, pc>>
           ELSE /\ closed_lanes' = closed_after(closed_lanes,
                                                request.open_lanes,
                                                request.close_lanes)
                /\ updater_closed_lanes' =
                       updater_closed_after(updater_closed_lanes,
                                            request.open_lanes,
                                            request.close_lanes)
                /\ IF entries = handles
                   THEN /\ pc' = pc
                        /\ obs' = [made(handles) EXCEPT
                                      !.closed_lanes_pub = <<closed_lanes'>>]
                   ELSE \/ /\ pc' = "aborted"
                           /\ \E reached \in SUBSET handles :
                                 obs' = made(reached)
                        \/ /\ pc' = pc
                           /\ obs' = [made(entries) EXCEPT
                                         !.closed_lanes_pub =
                                             <<closed_lanes'>>]

\* rmf_fleet_msgs::msg::ModeRequest as the action execution notice has it
ModeRequest(fleet, robot, mode) ==
    [fleet_name |-> fleet, robot_name |-> robot, mode |-> mode]

\* the variables of the handle that a call through an entry without a handle
\* leaves alone
unreached_handle ==
    <<current_task_id, current_path_request, path_requested_time,
      travel_info, last_known_state, interrupted, current_dock_request,
      dock_target_wp, dock_requested_time, dock_schedule_time,
      dock_finished_callback, interruptions, action_execution, now,
      battery_soc, history_vars>>

\* the action execution notice subscription (lines 1128-1154): an idle
\* notice for a robot of the map is passed to complete_robot_action through
\* the robot's entry, with or without a handle in it.
mode_request_sub(msg) ==
    LET frame == [NoEffects("mode_request_sub") EXCEPT !.arg = <<msg>>]
        called == [frame EXCEPT
                      !.calls = <<[robot |-> msg.robot_name,
                                   op |-> "complete_robot_action"]>>]
        entry == IF msg.robot_name \in DOMAIN robots
                 THEN robots[msg.robot_name] ELSE "absent"
    IN  /\ pc # "aborted"
        /\ UNCHANGED fleet_vars
        /\ IF \/ msg.fleet_name = ""
              \/ msg.fleet_name # FleetName
              \/ msg.robot_name = ""
              \/ msg.mode # "MODE_IDLE"
              \/ entry = "absent"
           THEN /\ obs' = frame
                /\ UNCHANGED <<handle_vars, now, battery_soc, history_vars>>
           ELSE IF entry = "handle"
           THEN IF msg.robot_name = RobotName
                THEN complete_robot_action_in(called)
                ELSE /\ obs' = called
                     /\ UNCHANGED <<handle_vars, now, battery_soc,
                                    history_vars>>
           ELSE /\ obs' = called
                /\ pc' \in {"aborted", pc}
                /\ UNCHANGED unreached_handle

\* the parameter callback (lines 938-961), for one parameter: a new value of
\* enable_responsive_wait goes to the updater of every entry of the robot
\* map, and cmd->get_updater() is called on entries without a handle too.
on_set_param(name, param) ==
    LET frame == [NoEffects("on_set_param") EXCEPT !.arg = <<name, param>>]
        entries == {r \in RobotNames : robots[r] # "absent"}
        handles == {r \in RobotNames : robots[r] = "handle"}
        fan_out(reached) ==
            [k \in 1..Len(SelectSeq(RobotOrder, LAMBDA r : r \in reached))
                |-> [robot |->
                         SelectSeq(RobotOrder, LAMBDA r : r \in reached)[k],
                     op |-> "enable_responsive_wait",
                     arg |-> param]]
    IN  /\ pc # "aborted"
        /\ UNCHANGED <<unreached_handle, fleet_vars>>
        /\ IF name # "enable_responsive_wait"
           THEN /\ obs' = frame
                /\ pc' = pc
           ELSE IF entries = handles
           THEN /\ obs' = [frame EXCEPT !.calls = fan_out(handles)]
                /\ pc' = pc
           ELSE \/ /\ pc' = "aborted"
                   /\ \E reached \in SUBSET handles :
                         obs' = [frame EXCEPT !.calls = fan_out(reached)]
                \/ /\ pc' = pc
                   /\ obs' = [frame EXCEPT !.calls = fan_out(entries)]

\* The telemetry of the fleet: each robot on the graph's map, at a waypoint
\* or on a lane, or on a map the graph does not know.
FleetSnapshots ==
    {RobotState(r, "0", "MODE_IDLE", b, l, <<>>) :
        r \in RobotNames,
        b \in {50, 100},
        l \in {HomeLocation, AwayLocation, Location(<<0, 0>>, OtherMap)}}

NextFleet ==
    \/ /\ \E s \in FleetSnapshots : fleet_state_sub(s)
       /\ UNCHANGED <<thread_vars, action_vars, plan_vars>>
    \/ /\ \E r \in RobotNames : robot_added(r)
       /\ UNCHANGED <<thread_vars, action_vars, plan_vars>>
    \/ /\ \E q \in FleetInterruptRequests : interrupt_request_sub(q)
       /\ UNCHANGED <<thread_vars, action_vars, plan_vars>>

SpecFleet == Init /\ [][NextFleet]_vars

\* ------------------------------------------------------------ lane requests

\* The telemetry of a fleet under lane closures: r1 echoes the handle's
\* task-id on lane 0 or at its exit, with one or two plan waypoints still
\* ahead; r2 reports from the graph's map or from another one.
ClosureSnapshots ==
    {RobotState(RobotName, to_string(current_task_id), "MODE_MOVING", 50,
                Location(q, MapName), p) :
        q \in {<<2, 0>>, <<4, 0>>},
        p \in {<<HomeLocation>>, <<HomeLocation, HomeLocation>>}}
    \cup
    {RobotState("r2", "0", "MODE_IDLE", 50, Location(<<0, 0>>, m), <<>>) :
        m \in {MapName, OtherMap}}

\* The lane requests: of this fleet, with lanes to close (one of them
\* twice) and lanes to open, and of no fleet or another one.
LaneRequests ==
    {LaneRequest(FleetName, open, close) :
        open \in {<<>>, <<0>>, <<2>>},
        close \in {<<>>, <<0>>, <<2>>, <<0, 2>>, <<2, 2>>}}
    \cup {LaneRequest(f, <<0>>, <<2>>) : f \in {"", "other"}}

NextClosure ==
    \/ /\ \E s \in ClosureSnapshots : fleet_state_sub(s)
       /\ UNCHANGED <<thread_vars, action_vars, plan_vars>>
    \/ /\ \E r \in RobotNames : robot_added(r)
       /\ UNCHANGED <<thread_vars, action_vars, plan_vars>>
    \/ /\ robots[RobotName] = "handle"
       /\ follow_new_path(PlanStraight)
       /\ UNCHANGED <<thread_vars, action_vars, plan_vars>>
    \/ /\ \E q \in LaneRequests : lane_closure_request_sub(q)
       /\ UNCHANGED <<thread_vars, action_vars, plan_vars>>

SpecClosure == Init /\ [][NextClosure]_vars

\* ------------------------------------------------------------------ fan-outs

\* The action execution notices: idle and not, for each robot, for a robot
\* the fleet has never heard of, for another fleet and without a robot name.
ModeRequests ==
    {ModeRequest(FleetName, r, m) :
        r \in RobotNames \cup {"r9", ""}, m \in {"MODE_IDLE", "MODE_MOVING"}}
    \cup {ModeRequest(f, RobotName, "MODE_IDLE") : f \in {"", "other"}}

\* The handlers of the coordinator that call into the entries of the robot
\* map, with robots that join the fleet while requests arrive.
NextFanOut ==
    \/ /\ \E s \in FleetSnapshots : fleet_state_sub(s)
       /\ UNCHANGED <<thread_vars, action_vars, plan_vars>>
    \/ /\ \E r \in RobotNames : robot_added(r)
       /\ UNCHANGED <<thread_vars, action_vars, plan_vars>>
    \/ /\ robots[RobotName] = "handle"
       /\ \E e \in ActionExecutions : set_action_execution(e)
       /\ UNCHANGED <<thread_vars, action_vars, plan_vars>>
    \/ /\ \E close \in {<<0>>, <<2>>} :
             lane_closure_request_sub(LaneRequest(FleetName, <<>>, close))
       /\ UNCHANGED <<thread_vars, action_vars, plan_vars>>
    \/ /\ \E msg \in ModeRequests : mode_request_sub(msg)
       /\ UNCHANGED <<thread_vars, action_vars, plan_vars>>
    \/ /\ \E name \in {"enable_responsive_wait", "other_parameter"},
             param \in BOOLEAN : on_set_param(name, param)
       /\ UNCHANGED <<thread_vars, action_vars, plan_vars>>

SpecFanOut == Init /\ [][NextFanOut]_vars

\* ---------------------------------------------------------------- watchdog
\* MoveRobot::Action (phases/MoveRobot.hpp): the wall timer that watches
\* over a path command.  Time here is in units of 5 s; the timer runs on
\* wall time, the check it makes reads the node's clock, which follows wall
\* time or, in a simulation that is paused or slow, falls behind it.

\* a check that takes every firing for a timeout
timed_out_always(t, last_update) == TRUE

\* !(now < _last_update_rostime + _update_timeout) (line 150)
timed_out(t, last_update) == ~(t < last_update + UpdateTimeout)

\* the waypoints of the MoveRobot action, with the times the plan has the
\* robot arrive at them
action_waypoints == <<[time |-> 0], [time |-> 1]>>

\* what a read past the end of _waypoints may give as the planned time
StrayTimes == {0, 3}

\* operator(): the time is noted, the timer created and the path handed to
\* the command handle (lines 141-170); the tail period is the one the action
\* was constructed with
subscribe ==
    /\ ~has_value(update_timeout_timer)
    /\ last_update_rostime' = rostime
    /\ update_timeout_timer' = Some(0)
    /\ tail_period' \in {nullopt, Some(1)}
    /\ obs' = [NoEffects("MoveRobot") EXCEPT
                  !.calls = <<[robot |-> RobotName,
                               op |-> "follow_new_path"]>>]
    /\ UNCHANGED <<handle_vars, now, battery_soc, history_vars, fleet_vars,
                   thread_vars, plan_vars, rostime, last_tail_bump,
                   next_path_index>>

\* the callback of the wall timer (lines 143-168)
update_timeout ==
    /\ has_value(update_timeout_timer)
    /\ value(update_timeout_timer) = UpdateTimeout
    /\ update_timeout_timer' = Some(0)
    /\ IF timed_out(rostime, last_update_rostime)
       THEN /\ last_update_rostime' = rostime
            /\ obs' = [NoEffects("update_timeout") EXCEPT
                          !.replan = 1, !.warned = TRUE]
       ELSE /\ last_update_rostime' = last_update_rostime
            /\ obs' = NoEffects("update_timeout")
    /\ UNCHANGED <<handle_vars, now, battery_soc, history_vars, fleet_vars,
                   thread_vars, plan_vars, rostime, tail_period, last_tail_bump,
                   next_path_index>>

\* if (action->_next_path_index > action->_waypoints.size()) return;
\* (line 232)
past_end(index, size) == index > size

\* the arrival estimator handed to follow_new_path (lines 172-277), called
\* by the command handle with the index of the plan waypoint the robot heads
\* for and the time it still needs (in units of 5 s); plan_current tells
\* whether the itinerary's current plan is the action's.
arrival_estimator(path_index, estimate, plan_current) ==
    LET size == Len(action_waypoints)
        bump ==
            /\ path_index = size - 1
            /\ estimate = 0        \* estimate < std::chrono::seconds(1)
            /\ has_value(tail_period)
            /\ \/ ~has_value(last_tail_bump)
               \/ value(last_tail_bump) + value(tail_period) < rostime
        bumped == IF bump
                  THEN <<[kind |-> "bump", by |-> value(tail_period)]>>
                  ELSE <<>>
        heading == IF path_index # next_path_index /\ path_index < size
                   THEN <<path_index>>
                   ELSE <<>>
        frame == [NoEffects("next_arrival_estimator") EXCEPT
                     !.arg = <<[path_index |-> path_index,
                                estimate |-> estimate,
                                plan_current |-> plan_current]>>]
    IN  /\ has_value(update_timeout_timer)
        /\ last_update_rostime' = rostime
        /\ update_timeout_timer' = Some(0)
        /\ last_tail_bump' = IF bump THEN Some(rostime) ELSE last_tail_bump
        /\ next_path_index' = path_index
        /\ IF past_end(path_index, size) \/ ~plan_current
           THEN obs' = [frame EXCEPT !.read = heading,
                                     !.cumulative_delay = bumped]
           ELSE \E planned_time \in
                       (IF path_index < size
                        THEN {action_waypoints[path_index + 1].time}
                        ELSE StrayTimes) :
                   obs' = [frame EXCEPT
                              !.read = heading \o <<path_index>>,
                              !.cumulative_delay =
                                  bumped \o
                                  <<[kind |-> "set",
                                     by |-> rostime + estimate
                                              - planned_time]>>]
        /\ UNCHANGED <<handle_vars, now, battery_soc, history_vars,
                       fleet_vars, thread_vars, plan_vars, rostime,
                       tail_period>>

\* wall time advances by one unit, and the node's clock with it or not; a
\* timer that is due fires before more time passes
WallTick(advance) ==
    /\ rostime + advance <= MaxRosTime
    /\ has_value(update_timeout_timer) =>
           value(update_timeout_timer) < UpdateTimeout
    /\ update_timeout_timer' =
           IF has_value(update_timeout_timer)
           THEN Some(value(update_timeout_timer) + 1)
           ELSE nullopt
    /\ rostime' = rostime + advance
    /\ obs' = NoEffects("Tick")
    /\ UNCHANGED <<handle_vars, now, battery_soc, history_vars, fleet_vars,
                   thread_vars, plan_vars, last_update_rostime, tail_period,
                   last_tail_bump, next_path_index>>

\* the waypoint indices the command handle may report: those of the plan,
\* the number of waypoints and one more
PathIndices == 0..(Len(action_waypoints) + 1)

NextWatchdog ==
    \/ subscribe
    \/ update_timeout
    \/ \E path_index \in PathIndices, estimate \in {0, 1},
          plan_current \in BOOLEAN :
          arrival_estimator(path_index, estimate, plan_current)
    \/ \E advance \in {0, 1} : WallTick(advance)

SpecWatchdog == Init /\ [][NextWatchdog]_vars

\* --------------------------------------------------------------- GoToPlace
\* GoToPlace::Active::execute_plan (lines 626-666): the waypoints of a plan
\* are split into MoveRobot phases, with the phases of the lane events in
\* between.  A plan waypoint is its place in the plan and its event.

\* the events a plan waypoint may carry ("none": it->event() is null)
LaneEvents == {"none", "Dock", "DoorOpen", "DoorClose", "LiftDoorOpen",
               "LiftDoorClose", "LiftMove"}

\* EventPhaseFactory::execute (lines 563-616): the phase an event adds to the
\* pending phases, if it adds one
event_phase(wp) ==
    CASE wp.event = "Dock" -> <<[phase |-> "DockRobot", of |-> wp.id]>>
      [] wp.event = "DoorOpen" -> <<[phase |-> "DoorOpen", of |-> wp.id]>>
      [] wp.event = "DoorClose" -> <<[phase |-> "DoorClose", of |-> wp.id]>>
      [] wp.event = "LiftDoorOpen" ->
             <<[phase |-> "RequestLift", of |-> wp.id]>>
      [] OTHER -> <<>>

\* MoveRobot::PendingPhase(_context, move_through)
MoveRobotPhase(move_through) ==
    [phase |-> "MoveRobot", waypoints |-> move_through]

\* the place where the for loop stops (lines 636-653): the first waypoint
\* with an event, or 0 when it runs to the end
first_event(wps) ==
    LET with_event == {k \in 1..Len(wps) : wps[k].event # "none"}
    IN  IF with_event = {} THEN 0
        ELSE CHOOSE k \in with_event : \A j \in with_event : k <= j

\* an erase that stops before the waypoint of the event
erase_before(wps, k) == SubSeq(wps, k, Len(wps))

\* waypoints.erase(waypoints.begin(), it+1) (line 650), it at place k
erase_through(wps, k) == SubSeq(wps, k + 1, Len(wps))

\* execute_plan is entered with a new plan (lines 628-633)
execute_plan(new_plan) ==
    /\ plan_pc \in {"idle", "done"}
    /\ plan' = new_plan
    /\ plan_waypoints' = new_plan
    /\ sub_phases' = <<>>
    /\ plan_pc' = "while"
    /\ obs' = [NoEffects("execute_plan") EXCEPT !.arg = <<new_plan>>]
    /\ UNCHANGED <<handle_vars, now, battery_soc, history_vars, fleet_vars,
                   thread_vars, action_vars>>

\* one turn of the while loop (lines 634-663)
split_waypoints ==
    /\ plan_pc = "while"
    /\ plan_waypoints # <<>>
    /\ LET k == first_event(plan_waypoints)
       IN  IF k # 0
           THEN /\ sub_phases' =
                       sub_phases
                       \o <<MoveRobotPhase(SubSeq(plan_waypoints, 1, k))>>
                       \o event_phase(plan_waypoints[k])
                /\ plan_waypoints' = erase_through(plan_waypoints, k)
           ELSE /\ sub_phases' =
                       sub_phases \o <<MoveRobotPhase(plan_waypoints)>>
                /\ plan_waypoints' = <<>>
    /\ obs' = NoEffects("split_waypoints")
    /\ UNCHANGED <<handle_vars, now, battery_soc, history_vars, fleet_vars,
                   thread_vars, action_vars, plan, plan_pc>>

\* the loop is left and the task made of the phases (lines 665-667)
make_subtasks ==
    /\ plan_pc = "while"
    /\ plan_waypoints = <<>>
    /\ plan_pc' = "done"
    /\ obs' = NoEffects("make_subtasks")
    /\ UNCHANGED <<handle_vars, now, battery_soc, history_vars, fleet_vars,
                   thread_vars, action_vars, plan, plan_waypoints,
                   sub_phases>>

\* the plans of up to MaxPlanLen waypoints, with an event of each kind at
\* every place (DoorClose and LiftDoorClose are executed like DoorOpen and
\* LiftMove: one with a phase, one without)
PlansToExecute ==
    UNION {[1..n -> LaneEvents \ {"DoorClose", "LiftDoorClose"}] :
              n \in 0..MaxPlanLen}

plan_of(events) ==
    [k \in 1..Len(events) |-> [id |-> k, event |-> events[k]]]

NextPlan ==
    \/ \E events \in PlansToExecute : execute_plan(plan_of(events))
    \/ split_waypoints
    \/ make_subtasks

SpecPlan == Init /\ [][NextPlan]_vars

\* execute_plan runs on: a loop that can take a turn takes it
SpecPlanFair ==
    /\ SpecPlan
    /\ WF_vars(split_waypoints)
    /\ WF_vars(make_subtasks)

\* ----------------------------------------------------------------- threads

\* the operations that begin with auto lock = _lock() (lines 205, 267, 323,
\* 368); newly_closed_lanes, set_action_execution, complete_robot_action and
\* handle_interrupt_request (lines 541-678) do not
takes_lock(name) ==
    name \in {"follow_new_path", "stop", "dock", "update_state"}

Call(name, arg) == [name |-> name, arg |-> arg]

\* The telemetry of a robot that is still on its way: docking while the
\* handle docks, moving otherwise.
ThreadSnapshots ==
    {RobotState(RobotName, e,
                IF dock_finished_callback # 0 THEN "MODE_DOCKING"
                ELSE "MODE_MOVING",
                50, AwayLocation, <<HomeLocation>>) : e \in Echoes}

\* the calls a thread may make on the handle
ThreadCalls ==
    {Call("follow_new_path", <<PlanStraight>>), Call("stop", <<>>),
     Call("dock", <<"dockA">>), Call("complete_robot_action", <<>>),
     Call("newly_closed_lanes", <<{2}>>),
     Call("set_action_execution", <<1>>)}
    \cup {Call("update_state", <<st>>) : st \in ThreadSnapshots}
    \cup {Call("handle_interrupt_request",
               <<InterruptRequest("i1", type, <<"a">>)>>) :
             type \in InterruptTypes}

\* the body of an operation
body(call) ==
    CASE call.name = "follow_new_path" -> follow_new_path(call.arg[1])
      [] call.name = "stop" -> stop
      [] call.name = "dock" -> dock(call.arg[1])
      [] call.name = "update_state" -> update_state(call.arg[1])
      [] call.name = "newly_closed_lanes" -> newly_closed_lanes(call.arg[1])
      [] call.name = "handle_interrupt_request" ->
             handle_interrupt_request(call.arg[1])
      [] call.name = "set_action_execution" ->
             set_action_execution(call.arg[1])
      [] call.name = "complete_robot_action" -> complete_robot_action

\* A thread enters an operation: one that takes the lock waits (busy) until
\* no other thread owns the mutex.
enter(t, call) ==
    /\ running[t] = NoOp
    /\ call.name \in CommandOps => current_task_id < MaxTaskId
    /\ takes_lock(call.name) => mutex = "none"
    /\ mutex' = IF takes_lock(call.name) THEN t ELSE mutex
    /\ running' = [running EXCEPT ![t] = call]
    /\ UNCHANGED <<handle_vars, now, battery_soc, obs, history_vars,
                   fleet_vars, action_vars, plan_vars, connections_mutex,
                   in_map>>

\* A thread runs the operation it is inside of and returns; its lock is
\* released as it goes out of scope.
leave(t) ==
    /\ running[t] # NoOp
    /\ body(running[t])
    /\ mutex' = IF mutex = t THEN "none" ELSE mutex
    /\ running' = [running EXCEPT ![t] = NoOp]
    /\ UNCHANGED <<action_vars, plan_vars, connections_mutex, in_map>>

NextThreads ==
    \/ \E t \in Threads : \E call \in ThreadCalls : enter(t, call)
    \/ \E t \in Threads : leave(t)

SpecThreads == Init /\ [][NextThreads]_vars

\* ------------------------------------------- the threads of the coordinator

\* the callbacks of the coordinator that begin with
\* auto lock = connections->lock(): the registration callback of add_robot
\* (line 874) and no other
takes_connections_lock(name) == name = "robot_added"

\* the thread a callback runs on: the registration callback on the worker of
\* the fleet updater, the subscriptions and the parameter callback on the
\* executor of the node
thread_of(name) == IF name = "robot_added" THEN "worker" ELSE "executor"

\* the callbacks that use connections->robots, with their inputs
MapCalls ==
    {Call("robot_added", <<r>>) : r \in RobotNames}
    \cup {Call("fleet_state_sub",
               <<RobotState(r, "0", "MODE_IDLE", 50, HomeLocation, <<>>)>>) :
             r \in RobotNames}
    \cup {Call("lane_closure_request_sub",
               <<LaneRequest(FleetName, <<>>, <<0>>)>>),
          Call("interrupt_request_sub",
               <<FleetInterruptRequest(FleetName, RobotName, "i1",
                                       "TYPE_INTERRUPT", <<"a">>)>>),
          Call("mode_request_sub",
               <<ModeRequest(FleetName, RobotName, "MODE_IDLE")>>),
          Call("on_set_param", <<"enable_responsive_wait", TRUE>>)}

\* the body of a callback
map_body(call) ==
    CASE call.name = "robot_added" -> robot_added(call.arg[1])
      [] call.name = "fleet_state_sub" -> fleet_state_sub(call.arg[1])
      [] call.name = "lane_closure_request_sub" ->
             lane_closure_request_sub(call.arg[1])
      [] call.name = "interrupt_request_sub" ->
             interrupt_request_sub(call.arg[1])
      [] call.name = "mode_request_sub" -> mode_request_sub(call.arg[1])
      [] call.name = "on_set_param" ->
             on_set_param(call.arg[1], call.arg[2])

\* A thread enters a callback: one that takes the lock waits (busy) until no
\* other thread owns Connections::_mutex.
enter_map(call) ==
    LET t == thread_of(call.name)
    IN  /\ pc # "aborted"
        /\ in_map[t] = NoOp
        /\ call.name = "robot_added" => call.arg[1] \in registering
        /\ takes_connections_lock(call.name) => connections_mutex = "none"
        /\ connections_mutex' = IF takes_connections_lock(call.name) THEN t
                                ELSE connections_mutex
        /\ in_map' = [in_map EXCEPT ![t] = call]
        /\ UNCHANGED <<handle_vars, now, battery_soc, obs, history_vars,
                       fleet_vars, action_vars, plan_vars, mutex, running>>

\* A thread runs the callback it is inside of and returns; its lock is
\* released as it goes out of scope.
leave_map(t) ==
    /\ in_map[t] # NoOp
    /\ map_body(in_map[t])
    /\ connections_mutex' = IF connections_mutex = t THEN "none"
                            ELSE connections_mutex
    /\ in_map' = [in_map EXCEPT ![t] = NoOp]
    /\ UNCHANGED <<action_vars, plan_vars, mutex, running>>

NextConnections ==
    \/ \E call \in MapCalls : enter_map(call)
    \/ \E t \in Threads : leave_map(t)

SpecConnections == Init /\ [][NextConnections]_vars

\* -------------------------------------------------------------- properties

\* the counter value a transmitted task-id string stands for
task_number(task_id) == CHOOSE n \in 0..(MaxTaskId + 1) : to_string(n) = task_id

\* C1, as stated: of two consecutive transmissions to the driver (PathRequest
\* or ModeRequest, rebroadcasts included) the later carries the strictly
\* greater task-id.
C1_StrictlyIncreasing ==
    Len(sent) = 2 =>
        task_number(sent[1].task_id) < task_number(sent[2].task_id)

\* C1, amended: a transmission that issues a command (follow_new_path, stop,
\* dock) carries a task-id strictly greater than the transmission before it,
\* and a rebroadcast from update_state repeats the task-id of the transmission
\* before it; so the transmitted task-ids never decrease, and increase
\* strictly from one command to the next.
C1_MonotoneTaskIds ==
    Len(sent) = 2 =>
        IF sent[2].rebroadcast
        THEN task_number(sent[1].task_id) = task_number(sent[2].task_id)
        ELSE task_number(sent[1].task_id) < task_number(sent[2].task_id)

\* C1 witness: a rebroadcast has followed a transmission.
C1_Rebroadcast ==
    /\ Len(sent) = 2
    /\ sent[2].rebroadcast
    /\ obs.op = "update_state"
    /\ obs.published # <<>>

\* C2: in every reachable state, those inside a completion callback
\* included, path_finished_callback and dock_finished_callback are not both
\* set.
C2_AtMostOneCallback ==
    ~(travel_info.path_finished_callback # 0 /\ dock_finished_callback # 0)

\* C2 witness: follow_new_path has been called from inside the dock
\* completion callback.
C2_ReentrantCommand ==
    /\ pc = "dock_finished_callback"
    /\ obs.op = "follow_new_path"
    /\ travel_info.path_finished_callback # 0

\* C4, as stated: a run of AdapterError telemetry of a path-following handle
\* has made exactly one replan call.
C4_ExactlyOneReplan == err_run.active => err_run.replans = 1

\* C4, amended: a run of AdapterError telemetry of a path-following handle,
\* with no command in between, has made one replan call if the handle had
\* not noticed an error since its follow_new_path when the run began and a
\* snapshot of the run has echoed the path request's task-id, and none
\* otherwise; never more than one.
C4_AtMostOneReplan ==
    err_run.active =>
        err_run.replans = (IF err_run.fresh /\ err_run.acked THEN 1 ELSE 0)

\* C4 witness: an AdapterError snapshot that echoes the path request arrives
\* after the run's replan and makes no second one.
C4_RepeatSuppressed ==
    /\ err_run.active
    /\ err_run.replans = 1
    /\ obs.op = "update_state"
    /\ value(obs.arg).task_id = current_path_request.task_id
    /\ obs.replan = 0

\* ceil(a / b) for a >= 0, b > 0
CeilDiv(a, b) == (a + b - 1) \div b

\* C9: from the issue of a follow_new_path or dock command until the first
\* telemetry that echoes its task-id, the rebroadcasts of the command number
\* at most ceil(elapsed / 200 ms).
C9_ResendBounded ==
    (issue.active /\ ~issue.acked) =>
        issue.rebroadcasts <= CeilDiv(now - issue.time, ResendInterval)

\* C9 witness: an unacknowledged command has been rebroadcast twice.
C9_Rebroadcasts ==
    /\ issue.active
    /\ ~issue.acked
    /\ issue.rebroadcasts = 2

\* the robot a fleet_state_sub observation is about
told_of == value(obs.arg).name

\* C3, as stated: telemetry for a robot that has no handle and cannot be
\* located registers no handle and produces a diagnostic; every later
\* telemetry for a robot still without a handle (and not being registered)
\* runs the plan-start computation again, and one with a non-empty start set
\* gets the robot registered.
C3_UnlocatableRetried ==
    (obs.op = "fleet_state_sub"
        /\ robots[told_of] # "handle"
        /\ told_of \notin registering)
    => /\ obs.compute_plan_starts = 1
       /\ obs.warned
       /\ compute_plan_starts(value(obs.arg).location) = {}

\* C3: the first telemetry of an unlocatable robot is rejected with a
\* diagnostic and leaves the robot without a handle.
C3_Rejected ==
    /\ obs.op = "fleet_state_sub"
    /\ obs.compute_plan_starts = 1
    /\ obs.warned
    /\ robots[told_of] = "null"
    /\ told_of \notin registering

\* the closed lanes a newly_closed_lanes observation was called with
told_closed == value(obs.arg)

\* some approach lane of a plan waypoint from target_plan_index to the end
\* of the plan is among the closed lanes
ahead_closed(info, closed) ==
    /\ has_value(info.target_plan_index)
    /\ \E i \in 1..Len(info.waypoints) :
          /\ i - 1 >= value(info.target_plan_index)
          /\ \E k \in 1..Len(info.waypoints[i].approach_lanes) :
                info.waypoints[i].approach_lanes[k] \in closed

\* C5: newly_closed_lanes requests a replan if target_plan_index is present
\* and an approach lane of a plan waypoint from that index on is in the
\* closed set, and requests none otherwise.
C5_ReplanIffAheadClosed ==
    obs.op = "newly_closed_lanes" =>
        obs.replan = (IF ahead_closed(travel_info, told_closed) THEN 1 ELSE 0)

\* C5 witness: a replan is requested for a closed lane that leads to a later
\* waypoint than the target, whose own approach lanes are all open.
C5_LaterWaypointClosed ==
    /\ obs.op = "newly_closed_lanes"
    /\ obs.replan = 1
    /\ has_value(travel_info.target_plan_index)
    /\ current_closed(travel_info, told_closed) = <<>>

\* the robot lies between the endpoints of a newly closed approach lane of
\* its target waypoint
on_closed_approach(info, closed) ==
    /\ has_value(info.target_plan_index)
    /\ \E k \in 1..Len(current_closed(info, closed)) :
          on_lane(<<value(last_known_state).location.x,
                    value(last_known_state).location.y>>,
                  current_closed(info, closed)[k])

\* C6, as stated: a newly_closed_lanes call that finds the robot between the
\* endpoints of a closed approach lane of its target waypoint calls
\* update_position once, with the reverse lane or with the entry waypoint,
\* and not with both.
C6_OnePositionUpdate ==
    (obs.op = "newly_closed_lanes"
        /\ on_closed_approach(travel_info, told_closed))
    => /\ Len(obs.update_position) = 1
       /\ obs.update_position[1].kind \in {"lanes", "waypoint"}

\* C6: with one closed approach lane under the robot, update_position is
\* called once.
C6_Reversed ==
    /\ obs.op = "newly_closed_lanes"
    /\ on_closed_approach(travel_info, told_closed)
    /\ Len(obs.update_position) = 1

\* C7: handle_interrupt_request with TYPE_INTERRUPT for a registered id, or
\* with TYPE_RESUME for an unregistered one, leaves the registry as it is
\* and calls neither interrupt() nor resume().
C7_InterruptIdempotent ==
    [][(obs'.op = "handle_interrupt_request"
          /\ \/ /\ value(obs'.arg).type = "TYPE_INTERRUPT"
                /\ value(obs'.arg).interrupt_id \in interruptions
             \/ /\ value(obs'.arg).type = "TYPE_RESUME"
                /\ value(obs'.arg).interrupt_id \notin interruptions)
       => /\ interruptions' = interruptions
          /\ obs'.interrupt = <<>>
          /\ obs'.resume = <<>>]_vars

\* C7 witness: a second TYPE_INTERRUPT for a registered id has been handled
\* without a call.
C7_DuplicateInterrupt ==
    /\ obs.op = "handle_interrupt_request"
    /\ value(obs.arg).type = "TYPE_INTERRUPT"
    /\ value(obs.arg).interrupt_id \in interruptions
    /\ obs.interrupt = <<>>

\* C8: two consecutive schedule pushes of a docking trajectory are at least
\* one second apart, across dock commands.
C8_DockScheduleThrottle ==
    Len(pushes) = 2 => pushes[2] - pushes[1] >= DockScheduleInterval

\* C8 witness: a second push has happened, under a later dock command than
\* the first.
C8_SecondPush ==
    /\ Len(pushes) = 2
    /\ obs.op = "update_state"
    /\ obs.pushed
    /\ current_task_id > 1

\* C10: update_state with battery_percent outside 0..100 leaves the updater's
\* battery state as it was; with battery_percent in 0..100, both ends
\* included, the updater's battery state becomes battery_percent / 100.
C10_BatteryDrop ==
    [][obs'.op = "update_state" =>
          LET percent == value(obs'.arg).battery_percent
          IN  IF percent < 0 \/ percent > 100
              THEN /\ battery_soc' = battery_soc
                   /\ obs'.update_battery_soc = nullopt
              ELSE /\ has_value(battery_soc')
                   /\ value(battery_soc').num * 100
                          = percent * value(battery_soc').den
                   /\ obs'.update_battery_soc = battery_soc']_vars

\* C10 witness: a snapshot with battery_percent 101 has been handled and the
\* updater still holds the level of an earlier snapshot.
C10_Dropped ==
    /\ obs.op = "update_state"
    /\ value(obs.arg).battery_percent = 101
    /\ obs.update_battery_soc = nullopt
    /\ has_value(battery_soc)

\* a step that is a call of follow_new_path, stop or dock
command_step == obs' # obs /\ obs'.op \in CommandOps

\* a callback slot is empty or holds the callback of a command issued by the
\* step that took the task-id from before to after
none_or_new(callback, before, after) ==
    callback = 0 \/ (callback = after /\ after > before)

\* after a command the prior command's callbacks are gone, and update_state
\* invokes only callbacks of the handle's latest command
prior_callbacks_gone ==
    /\ command_step =>
          /\ none_or_new(travel_info'.next_arrival_estimator,
                         current_task_id, current_task_id')
          /\ none_or_new(travel_info'.path_finished_callback,
                         current_task_id, current_task_id')
          /\ none_or_new(dock_finished_callback',
                         current_task_id, current_task_id')
    /\ obs'.op = "update_state" =>
          \A i \in 1..Len(obs'.invoked) :
              obs'.invoked[i].id = current_task_id'

\* C11, as stated: every follow_new_path, stop or dock call leaves none of
\* the prior command's callbacks to be invoked later and leaves the task-id
\* counter strictly larger than it found it.
C11_SupersedesAndBumps ==
    [][/\ prior_callbacks_gone
       /\ command_step => current_task_id' > current_task_id]_vars

\* C11, amended: every follow_new_path, stop or dock call leaves none of the
\* prior command's callbacks to be invoked later; follow_new_path, dock, and
\* stop on a handle that has received telemetry leave the task-id counter
\* strictly larger, while stop on a handle without telemetry leaves the
\* counter as it was and transmits nothing.
C11_Supersedes ==
    [][/\ prior_callbacks_gone
       /\ command_step =>
             IF obs'.op = "stop" /\ ~has_value(last_known_state)
             THEN current_task_id' = current_task_id
                  /\ obs'.published = <<>>
             ELSE current_task_id' > current_task_id]_vars

\* C11 witness: stop without telemetry has cleared the callbacks of command
\* 1 and kept the counter at 1.
C11_StopKeepsCounter ==
    /\ obs.op = "stop"
    /\ obs.warned
    /\ current_task_id = 1
    /\ travel_info.path_finished_callback = 0
    /\ dock_finished_callback = 0

\* the threads that are inside an operation of the handle
inside == {t \in Threads : running[t] # NoOp}

\* C12, as stated: every operation of the handle runs holding the handle's
\* mutex, so no two threads are inside operations of one handle at once.
C12_Serialized ==
    /\ \A t \in inside : mutex = t
    /\ Cardinality(inside) <= 1

\* C12: the operations that take the lock exclude each other: while one
\* thread is inside follow_new_path, the other has not entered a locked
\* operation.
C12_LockedExcluded ==
    /\ running["worker"].name = "follow_new_path"
    /\ mutex = "worker"
    /\ running["executor"] = NoOp
    /\ current_task_id = 1

\* a fleet_state_sub step for a robot seen for the first time, on the map of
\* the graph
first_seen(name) ==
    /\ robots[name] = "absent"
    /\ robots'[name] # "absent"
    /\ value(obs'.arg).name = name
    /\ value(obs'.arg).location.level_name = MapName

\* the first snapshot of the robot has gone to its handle through
\* update_state, and the updater's battery state is that of the snapshot
first_forwarded(name) ==
    /\ robots'[name] = "handle"
    /\ name \notin registering'
    /\ obs'.calls = <<[robot |-> name, op |-> "update_state"]>>
    /\ name = RobotName =>
          /\ has_value(battery_soc')
          /\ value(battery_soc').num * 100
                 = value(obs'.arg).battery_percent * value(battery_soc').den

\* C13, as stated: the processing of the first telemetry of a locatable
\* robot registers its handle and forwards that snapshot through
\* update_state, so that the updater's battery state is that of the snapshot.
C13_FirstSnapshotForwarded ==
    [][\A name \in RobotNames :
          first_seen(name) => first_forwarded(name)]_vars

\* C13, amended: the processing of the first telemetry of a locatable robot
\* hands the robot to the fleet updater; the snapshot is forwarded through
\* update_state only if the updater has stored the handle by then, and
\* otherwise the registration is pending, no update_state is called and the
\* updater's battery state is left as it was.
C13_ForwardedOnceRegistered ==
    [][\A name \in RobotNames :
          first_seen(name) =>
              \/ first_forwarded(name)
              \/ /\ robots'[name] = "null"
                 /\ name \in registering'
                 /\ obs'.calls = <<>>
                 /\ battery_soc' = battery_soc]_vars

\* C13 witness: the first snapshot of a locatable robot has been processed,
\* its registration is pending and the updater has no battery state.
C13_FirstSnapshotDropped ==
    /\ obs.op = "fleet_state_sub"
    /\ obs.compute_plan_starts = 1
    /\ ~obs.warned
    /\ told_of = RobotName
    /\ told_of \in registering
    /\ obs.calls = <<>>
    /\ battery_soc = nullopt

\* update_state takes a snapshot that echoes the dock request of the active
\* dock command and no longer reports the docking mode
dock_completes ==
    /\ obs' # obs
    /\ obs'.op = "update_state"
    /\ pc = "idle"
    /\ travel_info.path_finished_callback = 0
    /\ dock_finished_callback # 0
    /\ has_value(dock_target_wp)
    /\ value(obs'.arg).task_id = current_dock_request.task_id
    /\ value(obs'.arg).mode # "MODE_DOCKING"

\* C14: the first snapshot that echoes the dock request and is not in the
\* docking mode sets last_known_wp to the dock target and invokes
\* dock_finished_callback once; when the callback returns the slot is empty
\* and the travel information is as the callback left it (Idle unless the
\* callback gave a new command); no dock_finished_callback is ever invoked
\* twice.
C14_DockCompletesOnce ==
    /\ [][dock_completes =>
             /\ travel_info'.last_known_wp = dock_target_wp
             /\ obs'.invoked = <<[callback |-> "dock_finished_callback",
                                  id |-> dock_finished_callback]>>
             /\ finished_calls'[dock_finished_callback] = 1
             /\ pc' = "dock_finished_callback"]_vars
    /\ [][(pc = "dock_finished_callback" /\ pc' = "idle") =>
             /\ dock_finished_callback' = 0
             /\ travel_info' = travel_info]_vars
    /\ [](\A id \in DOMAIN finished_calls : finished_calls[id] <= 1)

\* C14 witness: a dock command has completed, its callback was invoked once,
\* the handle is Idle at the dock target and a later snapshot has been taken
\* without invoking anything.
C14_DockedAndQuiet ==
    /\ \E id \in DOMAIN finished_calls : finished_calls[id] = 1
    /\ pc = "idle"
    /\ dock_finished_callback = 0
    /\ travel_info.path_finished_callback = 0
    /\ has_value(dock_target_wp)
    /\ travel_info.last_known_wp = dock_target_wp
    /\ obs.op = "update_state"
    /\ obs.invoked = <<>>
    /\ value(obs.arg).task_id = current_dock_request.task_id
    /\ value(obs.arg).mode # "MODE_DOCKING"

\* C15: handle_interrupt_request with TYPE_RESUME for a registered id calls
\* resume() of the stored handle once, with the labels of the request, calls
\* no interrupt() and removes the id; the id is then unregistered, so the
\* next TYPE_RESUME for it calls nothing and the next TYPE_INTERRUPT for it
\* calls interrupt() with its labels and registers the id again.
C15_ResumeRemoves ==
    [][obs'.op = "handle_interrupt_request" =>
          LET request == value(obs'.arg)
              id == request.interrupt_id
          IN  /\ (request.type = "TYPE_RESUME" /\ id \in interruptions) =>
                    /\ obs'.resume = <<[id |-> id,
                                        labels |-> request.labels]>>
                    /\ obs'.interrupt = <<>>
                    /\ interruptions' = interruptions \ {id}
              /\ (request.type = "TYPE_RESUME" /\ id \notin interruptions) =>
                    /\ obs'.resume = <<>>
                    /\ obs'.interrupt = <<>>
                    /\ interruptions' = interruptions
              /\ (request.type = "TYPE_INTERRUPT" /\ id \notin interruptions)
                    => /\ obs'.interrupt = <<request.labels>>
                       /\ obs'.resume = <<>>
                       /\ interruptions' = interruptions \cup {id}]_vars

\* C15 witness: a TYPE_RESUME for a registered id has called resume() with
\* its labels and the id is gone, while another interruption stays.
C15_Resumed ==
    /\ obs.op = "handle_interrupt_request"
    /\ value(obs.arg).type = "TYPE_RESUME"
    /\ obs.resume = <<[id |-> value(obs.arg).interrupt_id,
                       labels |-> value(obs.arg).labels]>>
    /\ value(obs.arg).interrupt_id \notin interruptions
    /\ interruptions # {}

\* when the command that waits for its echo was last published
last_publish ==
    IF travel_info.path_finished_callback # 0 THEN path_requested_time
    ELSE dock_requested_time

\* update_state takes a snapshot that does not echo the task-id of the path
\* or dock command in progress
unacknowledged_step ==
    /\ obs'.op = "update_state"
    /\ now' = now
    /\ pc = "idle"
    /\ \/ /\ travel_info.path_finished_callback # 0
          /\ value(obs'.arg).task_id # current_path_request.task_id
       \/ /\ travel_info.path_finished_callback = 0
          /\ dock_finished_callback # 0
          /\ value(obs'.arg).task_id # current_dock_request.task_id

\* the step publishes the command again and takes now as its publish time
rebroadcasts ==
    /\ obs'.published # <<>>
    /\ sent'[Len(sent')].rebroadcast
    /\ path_requested_time' =
           IF travel_info.path_finished_callback # 0 THEN now
           ELSE path_requested_time
    /\ dock_requested_time' =
           IF travel_info.path_finished_callback # 0 THEN dock_requested_time
           ELSE now

\* the step publishes nothing and leaves the publish times
keeps_quiet ==
    /\ obs'.published = <<>>
    /\ UNCHANGED <<path_requested_time, dock_requested_time, sent>>

\* C16, as stated: an update_state for an unacknowledged path or dock command
\* rebroadcasts and refreshes the publish time exactly when
\* now - last_publish >= 200 ms.
C16_ResendAtInterval ==
    [][unacknowledged_step =>
          IF now - last_publish >= ResendInterval
          THEN rebroadcasts ELSE keeps_quiet]_vars

\* C16, amended: an update_state for an unacknowledged path or dock command
\* rebroadcasts and refreshes the publish time exactly when
\* now - last_publish > 200 ms; at exactly 200 ms it publishes nothing.
C16_ResendAfterInterval ==
    [][unacknowledged_step =>
          IF now - last_publish > ResendInterval
          THEN rebroadcasts ELSE keeps_quiet]_vars

\* C16 witness: 200 ms after the publication of a command a stale snapshot
\* has been taken and nothing was published again.
C16_QuietAtInterval ==
    /\ issue.active
    /\ ~issue.acked
    /\ issue.rebroadcasts = 0
    /\ now - issue.time = ResendInterval
    /\ last_publish = issue.time
    /\ obs.op = "update_state"
    /\ obs.published = <<>>
    /\ value(obs.arg).task_id # to_string(current_task_id)

\* the command transmitted last
last_sent == sent[Len(sent)]

\* when the command transmitted last was published last
last_sent_time ==
    IF last_sent.task_id = current_dock_request.task_id
    THEN dock_requested_time
    ELSE path_requested_time

\* update_state takes a snapshot (outside of a completion callback)
takes_snapshot ==
    /\ obs'.op = "update_state"
    /\ now' = now
    /\ pc = "idle"

\* C17, as stated: whatever command was transmitted last (by follow_new_path,
\* stop or dock), a snapshot taken more than 200 ms after its last
\* transmission that does not echo its task-id has it rebroadcast.
C17_EveryCommandResent ==
    [][(takes_snapshot
          /\ sent # <<>>
          /\ value(obs'.arg).task_id # last_sent.task_id
          /\ now - last_sent_time > ResendInterval)
       => obs'.published = <<last_sent.task_id>>]_vars

\* C17, amended: a snapshot taken more than 200 ms after the last
\* transmission of the command in progress (a path whose
\* path_finished_callback is set, or else a dock request whose
\* dock_finished_callback is set) that does not echo its task-id has that
\* command rebroadcast; with no callback set -- as after stop -- a snapshot
\* has nothing rebroadcast.
C17_CommandInProgressResent ==
    [][takes_snapshot =>
          IF travel_info.path_finished_callback # 0
          THEN (value(obs'.arg).task_id # current_path_request.task_id
                  /\ now - path_requested_time > ResendInterval)
               => obs'.published = <<current_path_request.task_id>>
          ELSE IF dock_finished_callback # 0
          THEN (value(obs'.arg).task_id # current_dock_request.task_id
                  /\ now - dock_requested_time > ResendInterval)
               => obs'.published = <<current_dock_request.task_id>>
          ELSE obs'.published = <<>>]_vars

\* C17 witness: more than 200 ms after stop transmitted its path a snapshot
\* that does not echo it has been taken, and nothing was published.
C17_StopNotResent ==
    /\ sent # <<>>
    /\ last_sent = [task_id |-> current_path_request.task_id,
                    rebroadcast |-> FALSE]
    /\ Len(current_path_request.path) = 1
    /\ travel_info.path_finished_callback = 0
    /\ dock_finished_callback = 0
    /\ now - path_requested_time > ResendInterval
    /\ obs.op = "update_state"
    /\ value(obs.arg).task_id # current_path_request.task_id
    /\ obs.published = <<>>

\* stop is called on a handle that has never taken a snapshot
stop_without_state ==
    /\ obs'.op = "stop"
    /\ ~has_value(last_known_state)

\* C18, as stated: stop on a handle that has never received telemetry
\* transmits nothing and leaves the task-id counter, the path request, the
\* arrival estimator and both completion callbacks as they were.
C18_StopChangesNothing ==
    [][stop_without_state =>
          /\ obs'.published = <<>>
          /\ sent' = sent
          /\ current_task_id' = current_task_id
          /\ current_path_request' = current_path_request
          /\ travel_info'.next_arrival_estimator
                 = travel_info.next_arrival_estimator
          /\ travel_info'.path_finished_callback
                 = travel_info.path_finished_callback
          /\ dock_finished_callback' = dock_finished_callback]_vars

\* C18, amended: stop on a handle that has never received telemetry logs a
\* warning, transmits nothing and leaves the task-id counter and the path
\* request as they were, but clears the arrival estimator and both
\* completion callbacks.
C18_StopOnlyClears ==
    [][stop_without_state =>
          /\ obs'.published = <<>>
          /\ obs'.warned
          /\ sent' = sent
          /\ current_task_id' = current_task_id
          /\ current_path_request' = current_path_request
          /\ path_requested_time' = path_requested_time
          /\ travel_info'.next_arrival_estimator = 0
          /\ travel_info'.path_finished_callback = 0
          /\ dock_finished_callback' = 0]_vars

\* C18 witness: stop has been called without telemetry on a handle that was
\* following a path; the path request is still that of follow_new_path, and
\* its callbacks are gone.
C18_PathCallbacksDropped ==
    /\ obs.op = "stop"
    /\ obs.warned
    /\ ~has_value(last_known_state)
    /\ current_path_request.path # <<>>
    /\ current_path_request.task_id = to_string(current_task_id)
    /\ travel_info.next_arrival_estimator = 0
    /\ travel_info.path_finished_callback = 0
    /\ dock_finished_callback = 0

\* stop is called on a handle that has taken a snapshot
stop_with_state ==
    /\ obs' # obs
    /\ obs'.op = "stop"
    /\ has_value(last_known_state)

\* C19: stop on a handle that has received telemetry publishes one
\* PathRequest, with a task-id one above the counter and the location of the
\* last snapshot as its only waypoint, and leaves the arrival estimator and
\* both completion callbacks unset.
C19_StopPublishesLastLocation ==
    [][stop_with_state =>
          /\ current_task_id' = current_task_id + 1
          /\ obs'.published = <<to_string(current_task_id + 1)>>
          /\ sent'[Len(sent')] = [task_id |-> to_string(current_task_id + 1),
                                  rebroadcast |-> FALSE]
          /\ current_path_request' =
                 [task_id |-> to_string(current_task_id + 1),
                  path |-> <<value(last_known_state).location>>]
          /\ path_requested_time' = now
          /\ travel_info'.next_arrival_estimator = 0
          /\ travel_info'.path_finished_callback = 0
          /\ dock_finished_callback' = 0]_vars

\* C19 witness: stop has superseded an earlier command with a request to the
\* robot's last reported location, and no callback is set.
C19_StoppedIdle ==
    /\ obs.op = "stop"
    /\ obs.published = <<to_string(current_task_id)>>
    /\ current_task_id = 2
    /\ has_value(last_known_state)
    /\ current_path_request.path = <<value(last_known_state).location>>
    /\ travel_info.path_finished_callback = 0
    /\ dock_finished_callback = 0

\* the robot an interrupt_request_sub observation is about
asked_of == value(obs'.arg).robot_name

\* C20, as stated: an interrupt request of this fleet for a robot without a
\* registered handle -- never seen, rejected as unlocatable, or not yet
\* through its registration -- is answered by a warning alone: no operation
\* of a handle is called and the process goes on.
C20_UnregisteredOnlyWarned ==
    [][(obs'.op = "interrupt_request_sub"
          /\ obs' # obs
          /\ value(obs'.arg).fleet_name = FleetName
          /\ robots[asked_of] # "handle")
       => /\ obs'.warned
          /\ obs'.calls = <<>>
          /\ pc' # "aborted"
          /\ interruptions' = interruptions]_vars

\* C20 witness: an interrupt request for a robot never seen has been answered
\* by the warning, with no call.
C20_UnknownWarned ==
    /\ obs.op = "interrupt_request_sub"
    /\ robots[value(obs.arg).robot_name] = "absent"
    /\ obs.warned
    /\ obs.calls = <<>>
    /\ pc = "idle"

\* the lane closure subscription takes a request of this fleet
accepts_lane_request ==
    /\ obs'.op = "lane_closure_request_sub"
    /\ value(obs'.arg).fleet_name = FleetName

\* C21: on an accepted lane request every newly_closed_lanes call of the
\* fan-out gets the lanes of close_lanes that were not in closed_lanes
\* before, every entry with a handle is called (unless the process ends in
\* the loop), and a request whose close_lanes were all closed already has
\* no replan requested.
C21_NewlyClosedPassed ==
    [][accepts_lane_request =>
          LET close == Range(value(obs'.arg).close_lanes)
          IN  /\ \A k \in 1..Len(obs'.calls) :
                    /\ obs'.calls[k].op = "newly_closed_lanes"
                    /\ obs'.calls[k].arg = close \ closed_lanes
              /\ pc' # "aborted" =>
                    \A r \in RobotNames : robots[r] = "handle" =>
                        \E k \in 1..Len(obs'.calls) : obs'.calls[k].robot = r
              /\ close \subseteq closed_lanes => obs'.replan = 0]_vars

\* C21 witness: a request has closed again a lane that the plan of r1 still
\* goes through; r1's handle was called with the empty set and no replan was
\* requested.
C21_ClosedAgain ==
    /\ obs.op = "lane_closure_request_sub"
    /\ value(obs.arg).close_lanes # <<>>
    /\ robots[RobotName] = "handle"
    /\ obs.calls # <<>>
    /\ obs.calls[1] = [robot |-> RobotName, op |-> "newly_closed_lanes",
                       arg |-> {}]
    /\ has_value(travel_info.target_plan_index)
    /\ remainder_closed(travel_info, Range(value(obs.arg).close_lanes))
    /\ obs.replan = 0

\* C22, as stated: after any sequence of lane requests the closed lane set of
\* the coordinator equals the set of lanes closed in the fleet updater, also
\* after a request with a lane in both of its lists.
C22_ClosedSetsAgree ==
    closed_lanes = updater_closed_lanes

\* C22 witness: a request with a lane in both close_lanes and open_lanes has
\* been taken; the updater has the lane closed and the coordinator has not.
C22_ClosedOnlyInUpdater ==
    /\ obs.op = "lane_closure_request_sub"
    /\ obs.closed_lanes_pub # <<>>
    /\ \E l \in Range(value(obs.arg).close_lanes)
               \cap Range(value(obs.arg).open_lanes) :
          /\ l \in updater_closed_lanes
          /\ l \notin closed_lanes
          /\ l \notin obs.closed_lanes_pub[1]

\* node time since the command started, the arrival estimator was last
\* invoked or the watchdog last requested a replan
stalled_for == rostime - last_update_rostime

\* C23, as stated: while the command is under execution a replan is
\* requested when 10 s have elapsed since the later of command start, last
\* arrival estimate and last watchdog replan, so that never more than 10 s
\* have elapsed without one.
C23_ReplanAtTenSeconds ==
    has_value(update_timeout_timer) => stalled_for <= UpdateTimeout

\* C23, amended: the watchdog checks only when its wall timer fires, 10 s of
\* wall time after the command started, the arrival estimator was last
\* invoked or the timer last fired; at a firing it requests a replan if and
\* only if at least 10 s of node time have elapsed since the later of
\* command start, last arrival estimate and last watchdog replan, and only
\* then restarts that measurement; the arrival estimator restarts both.
C23_ReplanAtFiring ==
    [][/\ obs'.op = "update_timeout" =>
             /\ value(update_timeout_timer) = UpdateTimeout
             /\ value(update_timeout_timer') = 0
             /\ IF stalled_for >= UpdateTimeout
                THEN /\ obs'.replan = 1
                     /\ last_update_rostime' = rostime
                ELSE /\ obs'.replan = 0
                     /\ last_update_rostime' = last_update_rostime
       /\ obs'.op = "next_arrival_estimator" =>
             /\ obs'.replan = 0
             /\ last_update_rostime' = rostime
             /\ value(update_timeout_timer') = 0
       /\ obs'.op \notin {"update_timeout", "next_arrival_estimator"} =>
             /\ obs'.replan = 0
             /\ has_value(update_timeout_timer) =>
                    last_update_rostime' = last_update_rostime
      ]_vars

\* C23 witness: the timer has fired once without a replan, and by now more
\* than 10 s of node time have passed without progress and without a replan.
C23_StalledUnnoticed ==
    /\ has_value(update_timeout_timer)
    /\ stalled_for > UpdateTimeout
    /\ obs.op = "Tick"

\* C24: an update_state whose snapshot does not echo the task-id of the
\* command in progress invokes no callback and requests no replan, whatever
\* its mode and residual path, and leaves the callbacks installed.
C24_StaleEchoInert ==
    [][unacknowledged_step =>
          /\ obs'.invoked = <<>>
          /\ obs'.replan = 0
          /\ pc' = "idle"
          /\ interrupted' = interrupted
          /\ travel_info'.path_finished_callback
                 = travel_info.path_finished_callback
          /\ travel_info'.next_arrival_estimator
                 = travel_info.next_arrival_estimator
          /\ dock_finished_callback' = dock_finished_callback]_vars

\* C24 witness: a path command is in progress and a snapshot with another
\* task-id, in the adapter error mode and with an empty residual path, has
\* been taken without a call.
C24_StaleErrorIgnored ==
    /\ obs.op = "update_state"
    /\ travel_info.path_finished_callback # 0
    /\ value(obs.arg).task_id # current_path_request.task_id
    /\ value(obs.arg).mode = "MODE_ADAPTER_ERROR"
    /\ value(obs.arg).path = <<>>
    /\ obs.invoked = <<>>
    /\ obs.replan = 0

\* when the request with the handle's latest task-id was published last
latest_publish ==
    IF current_dock_request.task_id = to_string(current_task_id)
    THEN dock_requested_time
    ELSE path_requested_time

\* the command with task-id id waits for its echo after n rebroadcasts, and
\* the clock has room for one more
awaits_echo(id, n) ==
    /\ issue.active
    /\ ~issue.acked
    /\ current_task_id = id
    /\ issue.rebroadcasts = n
    /\ latest_publish + ResendInterval < MaxResendTime

\* C25, as stated: a follow_new_path or dock command that waits for its echo
\* while the clock advances and telemetry without the echo keeps arriving is
\* rebroadcast once more, unless it is acknowledged or superseded first.
C25_ResentUntilAcknowledged ==
    \A id \in 1..MaxTaskId : \A n \in 0..MaxResendTime :
        awaits_echo(id, n) ~>
            \/ issue.rebroadcasts > n
            \/ issue.acked
            \/ ~issue.active
            \/ current_task_id # id

\* C25 witness: a dock command given from inside dock_finished_callback has
\* been transmitted and waits for its echo, and no callback is installed.
C25_DockForgotten ==
    /\ pc = "idle"
    /\ issue.active
    /\ ~issue.acked
    /\ sent # <<>>
    /\ sent[Len(sent)].task_id = current_dock_request.task_id
    /\ current_dock_request.task_id = to_string(current_task_id)
    /\ dock_finished_callback = 0
    /\ travel_info.path_finished_callback = 0

\* C26, as stated: the dock lane is looked up before anything is published,
\* so a dock call whose name matches no lane has transmitted no command.
C26_NoTransmitWithoutLane ==
    (obs.op = "dock" /\ ~has_value(dock_target_wp)) => obs.published = <<>>

\* C26 witness: a dock call has found no lane for its name and ended the
\* process, and its mode request is already on the wire.
C26_UnknownDockTransmitted ==
    /\ obs.op = "dock"
    /\ pc = "aborted"
    /\ current_dock_request.dock_name = "dockZ"
    /\ ~has_value(dock_target_wp)
    /\ obs.published = <<current_dock_request.task_id>>
    /\ sent[Len(sent)].task_id = current_dock_request.task_id

\* C27, as stated: follow_new_path, stop and dock each leave
\* target_plan_index absent, so a newly_closed_lanes call that comes right
\* after stop or dock, before any telemetry, requests no replan.
C27_CommandsResetTarget ==
    [][/\ obs'.op \in {"follow_new_path", "stop", "dock"}
          => ~has_value(travel_info'.target_plan_index)
       /\ (obs.op \in {"stop", "dock"} /\ obs'.op = "newly_closed_lanes")
          => obs'.replan = 0]_vars

\* C27 witness: after a stop or dock no callback of the path is left, its
\* target_plan_index is still there, and newly_closed_lanes has requested a
\* replan for it.
C27_SupersededPlanReplanned ==
    /\ obs.op = "newly_closed_lanes"
    /\ travel_info.path_finished_callback = 0
    /\ travel_info.next_arrival_estimator = 0
    /\ has_value(travel_info.target_plan_index)
    /\ obs.replan = 1

\* u * length(lane) for the projection u of the robot's position on lane l,
\* measured from the lane's entry waypoint
along(l) ==
    Dot(Minus(<<value(last_known_state).location.x,
                value(last_known_state).location.y>>,
              get_location(get_lane(l).entry)),
        Minus(get_location(get_lane(l).exit),
              get_location(get_lane(l).entry)))

\* length(lane) * length(lane)
length_squared(l) ==
    Dot(Minus(get_location(get_lane(l).exit),
              get_location(get_lane(l).entry)),
        Minus(get_location(get_lane(l).exit),
              get_location(get_lane(l).entry)))

\* the closed approach lanes of the target waypoint
closed_approaches ==
    {current_closed(travel_info, told_closed)[k] :
        k \in 1..Len(current_closed(travel_info, told_closed))}

\* C28, as stated: newly_closed_lanes reports a reversing position exactly
\* when the projection u of the robot on a closed approach lane of its target
\* satisfies 0 <= u <= length(lane), both endpoints included.
C28_StrandedBetweenEndpoints ==
    (obs.op = "newly_closed_lanes"
        /\ has_value(travel_info.target_plan_index))
    => (obs.update_position # <<>>
          <=> \E l \in closed_approaches :
                 0 <= along(l) /\ along(l) <= length_squared(l))

\* C28: newly_closed_lanes reports a reversing position exactly when
\* 0 <= u < length(lane) on a closed approach lane of the target: the entry
\* waypoint counts as on the lane, the exit waypoint does not.
C28_StrandedBeforeExit ==
    (obs.op = "newly_closed_lanes"
        /\ has_value(travel_info.target_plan_index))
    => (obs.update_position # <<>>
          <=> \E l \in closed_approaches :
                 0 <= along(l) /\ along(l) < length_squared(l))

\* C28 witness: the robot stands on the exit waypoint of the only closed
\* approach lane of its target; a replan is requested and no reversing
\* position is reported.
C28_AtExitNotStranded ==
    /\ obs.op = "newly_closed_lanes"
    /\ has_value(travel_info.target_plan_index)
    /\ closed_approaches # {}
    /\ \A l \in closed_approaches : along(l) = length_squared(l)
    /\ obs.update_position = <<>>
    /\ obs.replan = 1

\* C29, as stated: every accepted lane request is followed by exactly one
\* ClosedLanes status, and its set is the previous closed set with the
\* request's close_lanes added and then its open_lanes removed.
C29_OneStatusPerRequest ==
    [][accepts_lane_request =>
          obs'.closed_lanes_pub =
              <<(closed_lanes \cup Range(value(obs'.arg).close_lanes))
                   \ Range(value(obs'.arg).open_lanes)>>]_vars

\* C29 witness: an accepted request has been applied to the closed lane set
\* while an entry of the robot map had no handle yet; the process has ended
\* in the fan-out and no status was published.
C29_RequestWithoutStatus ==
    /\ obs.op = "lane_closure_request_sub"
    /\ value(obs.arg).fleet_name = FleetName
    /\ obs.fleet # <<>>
    /\ Range(value(obs.arg).close_lanes) \ Range(value(obs.arg).open_lanes)
           # {}
    /\ Range(value(obs.arg).close_lanes) \ Range(value(obs.arg).open_lanes)
           \subseteq closed_lanes
    /\ \E r \in RobotNames : robots[r] = "null"
    /\ pc = "aborted"
    /\ obs.closed_lanes_pub = <<>>

\* C30: a lane request whose fleet_name is empty or names another fleet
\* changes nothing: no open_lanes or close_lanes call on the updater, the
\* closed lane sets as before, no newly_closed_lanes call, no replan, no
\* position update and no ClosedLanes status.
C30_ForeignRequestIgnored ==
    [][(obs'.op = "lane_closure_request_sub"
          /\ value(obs'.arg).fleet_name \in {"", "other"})
       => /\ obs'.fleet = <<>>
          /\ obs'.calls = <<>>
          /\ obs'.closed_lanes_pub = <<>>
          /\ obs'.replan = 0
          /\ obs'.update_position = <<>>
          /\ closed_lanes' = closed_lanes
          /\ updater_closed_lanes' = updater_closed_lanes
          /\ pc' = pc]_vars

\* C30 witness: a request without fleet name that would open a closed lane
\* and close an open one has arrived while r1 had a handle; the closed set is
\* as it was and nothing was called or published.
C30_NamelessRequestDropped ==
    /\ obs.op = "lane_closure_request_sub"
    /\ value(obs.arg).fleet_name = ""
    /\ Range(value(obs.arg).open_lanes) \cap closed_lanes # {}
    /\ Range(value(obs.arg).close_lanes) \ closed_lanes # {}
    /\ robots[RobotName] = "handle"
    /\ obs.fleet = <<>>
    /\ obs.calls = <<>>
    /\ obs.closed_lanes_pub = <<>>

\* C31: with neither path_finished_callback nor dock_finished_callback set,
\* update_state transmits no request, invokes no callback and requests no
\* replan, whatever task_id, mode and path the telemetry has.
C31_IdleIssuesNothing ==
    [][(obs'.op = "update_state"
          /\ travel_info.path_finished_callback = 0
          /\ dock_finished_callback = 0)
       => /\ obs'.published = <<>>
          /\ sent' = sent
          /\ obs'.invoked = <<>>
          /\ obs'.replan = 0
          /\ pc' = "idle"]_vars

\* C31 witness: after a command was given and stopped, telemetry that does
\* not echo the stop's task-id and reports AdapterError with an empty path
\* has only had the robot's position and battery reported.
C31_IdleErrorReported ==
    /\ obs.op = "update_state"
    /\ travel_info.path_finished_callback = 0
    /\ dock_finished_callback = 0
    /\ current_task_id > 1
    /\ value(obs.arg).task_id # to_string(current_task_id)
    /\ value(obs.arg).mode = "MODE_ADAPTER_ERROR"
    /\ value(obs.arg).path = <<>>
    /\ obs.update_position # <<>>
    /\ obs.published = <<>>
    /\ obs.invoked = <<>>
    /\ obs.replan = 0

\* C32: the finished notifier of an installed action execution is invoked at
\* most once: complete_robot_action invokes it for a filled slot and empties
\* the slot, and with an empty slot it invokes nothing and leaves the slot
\* empty.
C32_FinishedAtMostOnce ==
    /\ [](finished_notices <= 1)
    /\ [][obs'.op = "complete_robot_action" =>
             /\ action_execution' = nullopt
             /\ obs'.invoked =
                    IF has_value(action_execution)
                    THEN <<[callback |-> "finished",
                            id |-> value(action_execution)]>>
                    ELSE <<>>]_vars

\* C32 witness: the installed action execution has been notified once, and a
\* further complete_robot_action has found the slot empty and invoked
\* nothing.
C32_SecondNoticeIgnored ==
    /\ obs.op = "complete_robot_action"
    /\ finished_notices = 1
    /\ action_execution = nullopt
    /\ obs.invoked = <<>>

\* telemetry is taken by a docking handle and echoes the dock command
dock_echoed ==
    /\ pc = "idle"
    /\ obs'.op = "update_state"
    /\ travel_info.path_finished_callback = 0
    /\ dock_finished_callback # 0
    /\ value(obs'.arg).task_id = current_dock_request.task_id

\* C33: a dock command completes on the first telemetry that echoes its
\* task-id with a mode other than Docking, whether or not earlier telemetry
\* for the command reported Docking; an echo with mode Docking completes
\* nothing.
C33_DockCompletesOnEcho ==
    [][dock_echoed =>
          IF value(obs'.arg).mode # "MODE_DOCKING"
          THEN /\ obs'.invoked = <<[callback |-> "dock_finished_callback",
                                    id |-> dock_finished_callback]>>
               /\ pc' = "dock_finished_callback"
          ELSE /\ obs'.invoked = <<>>
               /\ pc' = "idle"
               /\ dock_finished_callback' = dock_finished_callback]_vars

\* C33 witness: the dock callback is being invoked for telemetry that echoes
\* the command with mode Moving, and no telemetry for this command has ever
\* reported Docking.
C33_CompletedWithoutDocking ==
    /\ obs.op = "update_state"
    /\ pc = "dock_finished_callback"
    /\ value(obs.arg).task_id = current_dock_request.task_id
    /\ value(obs.arg).mode = "MODE_MOVING"
    /\ obs.invoked = <<[callback |-> "dock_finished_callback",
                        id |-> dock_finished_callback]>>
    /\ issue.active
    /\ ~issue.docking

\* C34, as stated: each fan-out of the coordinator (newly_closed_lanes on a
\* lane request, complete_robot_action on an action-idle notice,
\* enable_responsive_wait on a parameter update) operates only on entries of
\* the robot map that hold a handle, and none is invoked through an entry
\* without one.
C34_FanOutOnHandles ==
    [][obs'.op \in {"lane_closure_request_sub", "mode_request_sub",
                    "on_set_param"}
       => /\ \A k \in 1..Len(obs'.calls) :
                robots[obs'.calls[k].robot] = "handle"
          /\ pc' = pc]_vars

\* C34 witness: an action-idle notice has been passed to
\* complete_robot_action through the entry of a robot whose registration has
\* not completed, and the process has ended there.
C34_NoticeThroughNull ==
    /\ obs.op = "mode_request_sub"
    /\ value(obs.arg).mode = "MODE_IDLE"
    /\ value(obs.arg).robot_name \in RobotNames
    /\ robots[value(obs.arg).robot_name] = "null"
    /\ obs.calls = <<[robot |-> value(obs.arg).robot_name,
                      op |-> "complete_robot_action"]>>
    /\ pc = "aborted"

\* C35, as stated: a dock command given from inside dock_finished_callback is
\* not lost: when the callback returns and update_state goes on, the dock
\* callback installed by the new command (not invoked yet) is still in its
\* slot.
C35_ReentrantDockKept ==
    [][(pc = "dock_finished_callback"
          /\ pc' = "idle"
          /\ dock_finished_callback # 0
          /\ finished_calls[dock_finished_callback] = 0)
       => dock_finished_callback' = dock_finished_callback]_vars

\* C35 witness: a dock command was given from inside dock_finished_callback;
\* telemetry has echoed its task-id with mode Moving, and its callback, which
\* is no longer installed, was not invoked and never has been.
C35_ReentrantDockLost ==
    /\ obs.op = "update_state"
    /\ pc = "idle"
    /\ issue.active
    /\ ~issue.acked
    /\ current_dock_request.task_id = to_string(current_task_id)
    /\ value(obs.arg).task_id = current_dock_request.task_id
    /\ value(obs.arg).mode = "MODE_MOVING"
    /\ dock_finished_callback = 0
    /\ travel_info.path_finished_callback = 0
    /\ finished_calls[current_task_id] = 0
    /\ obs.invoked = <<>>

\* C36, as stated: every access to the robot map is made while holding the
\* Connections lock, so a thread that is inside a callback that uses the map
\* owns Connections::_mutex, and the registration callback never runs
\* together with another callback that uses the map.
C36_MapUnderLock ==
    \A t \in Threads : in_map[t] # NoOp => connections_mutex = t

\* C36 witness: while the worker is inside the registration callback of r1,
\* holding the lock, the executor is inside fleet_state_sub for r1, reading
\* the entry the worker is about to write.
C36_RegistrationRaced ==
    /\ in_map["worker"] = Call("robot_added", <<RobotName>>)
    /\ connections_mutex = "worker"
    /\ in_map["executor"].name = "fleet_state_sub"
    /\ in_map["executor"].arg[1].name = RobotName
    /\ robots[RobotName] = "null"

\* C37: the interrupted flag is cleared by follow_new_path and by nothing
\* else, and while it is set no update_state requests a replan: after the
\* replan of one AdapterError no later AdapterError telemetry for the same
\* command brings another, whatever telemetry came in between.
C37_OneReplanPerCommand ==
    /\ [][(interrupted /\ ~interrupted') => obs'.op = "follow_new_path"]_vars
    /\ [][(interrupted /\ obs'.op = "update_state") => obs'.replan = 0]_vars

\* C37 witness: AdapterError telemetry echoing the path command has started
\* a new run of errors, after telemetry without error, on a handle whose
\* flag was set by an earlier AdapterError; no replan was requested.
C37_SecondErrorIgnored ==
    /\ obs.op = "update_state"
    /\ travel_info.path_finished_callback # 0
    /\ value(obs.arg).task_id = current_path_request.task_id
    /\ value(obs.arg).mode = "MODE_ADAPTER_ERROR"
    /\ interrupted
    /\ err_run.active
    /\ ~err_run.fresh
    /\ err_run.replans = 0
    /\ obs.replan = 0

\* C38, as stated: the arrival estimator of MoveRobot reads _waypoints only
\* at indices smaller than its length, and a path_index at or past the number
\* of waypoints leads to no read of a waypoint and to no cumulative delay
\* update.
C38_WaypointReadsInRange ==
    [][obs'.op = "next_arrival_estimator" =>
          /\ \A k \in 1..Len(obs'.read) :
                obs'.read[k] < Len(action_waypoints)
          /\ value(obs'.arg).path_index >= Len(action_waypoints) =>
                /\ obs'.read = <<>>
                /\ obs'.cumulative_delay = <<>>]_vars

\* C38 witness: the estimator was called with path_index equal to the number
\* of waypoints while the action's plan was the current one; it has read
\* _waypoints at that index and scheduled a cumulative delay from what it
\* found there.
C38_ReadPastEnd ==
    /\ obs.op = "next_arrival_estimator"
    /\ value(obs.arg).path_index = Len(action_waypoints)
    /\ value(obs.arg).plan_current
    /\ obs.read = <<Len(action_waypoints)>>
    /\ Len(obs.cumulative_delay) = 1
    /\ obs.cumulative_delay[1].kind = "set"

\* the waypoints of the MoveRobot phases among phases, one after another
RECURSIVE moved_through(_)
moved_through(phases) ==
    IF phases = <<>> THEN <<>>
    ELSE (IF Head(phases).phase = "MoveRobot" THEN Head(phases).waypoints
          ELSE <<>>) \o moved_through(Tail(phases))

\* the phase that follows the arrival at a waypoint with this event, if the
\* event has one
phase_for(event) ==
    CASE event = "Dock" -> <<"DockRobot">>
      [] event = "DoorOpen" -> <<"DoorOpen">>
      [] event = "DoorClose" -> <<"DoorClose">>
      [] event = "LiftDoorOpen" -> <<"RequestLift">>
      [] OTHER -> <<>>

\* C39: execute_plan ends for every plan: each turn of its loop shortens the
\* waypoints left, and the loop is left once none is left.  The MoveRobot
\* phases it makes hold, one after another, exactly the plan's waypoints; a
\* waypoint with an event is the last of its MoveRobot phase, and the phase
\* made for the event comes right after that MoveRobot phase.
C39_PlanSplitInOrder ==
    /\ [][(plan_pc = "while" /\ plan_waypoints # <<>>)
             => Len(plan_waypoints') < Len(plan_waypoints)]_vars
    /\ (plan_pc = "while") ~> (plan_pc = "done")
    /\ [](plan_pc = "done" =>
            /\ moved_through(sub_phases) = plan
            /\ \A i \in 1..Len(sub_phases) :
                  IF sub_phases[i].phase = "MoveRobot"
                  THEN LET through == sub_phases[i].waypoints
                           last == through[Len(through)]
                       IN  /\ through # <<>>
                           /\ \A k \in 1..(Len(through) - 1) :
                                 through[k].event = "none"
                           /\ phase_for(last.event) # <<>> =>
                                 /\ i < Len(sub_phases)
                                 /\ sub_phases[i + 1] =
                                        [phase |-> phase_for(last.event)[1],
                                         of |-> last.id]
                  ELSE /\ i > 1
                       /\ sub_phases[i - 1].phase = "MoveRobot"
                       /\ LET before == sub_phases[i - 1].waypoints
                          IN  /\ before[Len(before)].id = sub_phases[i].of
                              /\ phase_for(before[Len(before)].event)
                                     = <<sub_phases[i].phase>>)

\* C39 witness: a plan of three waypoints whose first and last carry a Dock
\* and a DoorOpen event has been split into a MoveRobot phase with the first
\* waypoint, the dock phase, a MoveRobot phase with the other two and the
\* door phase.
C39_SplitAtEvents ==
    /\ plan_pc = "done"
    /\ plan = plan_of(<<"Dock", "none", "DoorOpen">>)
    /\ sub_phases =
           <<MoveRobotPhase(SubSeq(plan, 1, 1)),
             [phase |-> "DockRobot", of |-> 1],
             MoveRobotPhase(SubSeq(plan, 2, 3)),
             [phase |-> "DoorOpen", of |-> 3]>>

====
